---- MODULE Spec2Model ----
(***************************************************************************)
(* A model of the linked-chunk allocator of simpile (src/src/linked.rs)    *)
(* over a space provider (src/src/space.rs).                               *)
(*                                                                         *)
(* The space is an array of 8-byte words.  Every word the allocator keeps  *)
(* (bin slots, meta words, prev/next links, footers, padding words) and    *)
(* every word of user data lives in that one array, as in the code, so a   *)
(* word read by the allocator may be a stale value left by an earlier use  *)
(* of the same bytes.  Pointers are absolute byte addresses; 0 is null.    *)
(*                                                                         *)
(* The code is modelled as built without debug assertions: debug_assert!   *)
(* checks nothing.  expect and unwrap on None panic; a write outside the   *)
(* space is undefined behaviour.  Either one ends the run: fault records   *)
(* it and no further call is made.                                         *)
(***************************************************************************)
EXTENDS Integers, Sequences, FiniteSets, TLC

(***************************** program constants ***************************)
META_MASK == 7
META_SIZE == 8
MIN_SIZE == META_SIZE + 24
EXACT_BINS_LEN == 32
SORTED_BINS_LEN == 64
BINS_LEN == EXACT_BINS_LEN + SORTED_BINS_LEN
MIN_USER_SIZE == MIN_SIZE - META_SIZE
\* NonNull::<u8>::dangling(): the alignment of u8 as an address
Dangling == 1
\* stands for usize::MAX (the model's integers are narrower than the code's;
\* every size at or above 2^24 takes the same branch of bin_index_of_size, and
\* 2^29 - 1 leaves room to add an address and a wrapped size)
MaxUsize == 536870911

(********************************* bounds **********************************)
\* words of the chunk region of a freshly initialised space
InitWords == 15
\* outstanding allocations the driver keeps
MaxLive == 3
\* steps the driver takes (Spec: any layout, growth, user writes)
MaxOps == 5
\* words of the chunk region of a space that cannot grow
FixedWords == 23
\* steps the driver takes on a space that cannot grow (SpecFixed: byte-aligned layouts)
MaxFixedOps == 8
MaxEdgeOps == 5
MaxDeepOps == 6
MaxMoveOps == 4
OrderWords == 16
MaxOrderOps == 8
MaxPadOps == 4
MaxStaleOps == 3
MaxFairOps == 6
MaxSpaceOps == 2
MaxSwitchOps == 7
MaxMethods == 2
MaxNewOps == 2
MaxThreads == 2
MaxThreadOps == 3

InitLen == 8 * BINS_LEN + 8 * InitWords
FixedLen == 8 * BINS_LEN + 8 * FixedWords
\* the provider refuses to map more than this
MaxLen == 2 * InitLen
MaxWords == MaxLen \div 8
\* base addresses the provider hands out (page-aligned, as mmap's and Fixed::new's are)
Bases == {4096}
\* layouts and contents the driver uses
Sizes == {8, 40, 1024}
Aligns == {1, 16}
FixedSizes == {8, 32, 40}
UserVals == {0, 1}
\* a walk over more chunks than the largest space can hold does not terminate
Fuel == (MaxWords - BINS_LEN) \div 4 + 1

VARIABLES mem, base, len, fault, live, last, left, phase, lock, thr, serial, born, out, switch

vars == <<mem, base, len, fault, live, last, left, phase, lock, thr, serial, born, out, switch>>

(***************************************************************************)
(* The machine state an operation works on: s.mem the words of the space,  *)
(* s.base and s.len its current range, s.fault what went wrong so far      *)
(* ("none", "panic": an expect/unwrap/assert failed, "ub": a write outside *)
(* the space, "hang": a walk that does not end).  After a fault nothing    *)
(* more is written.                                                        *)
(***************************************************************************)
Machine == [mem |-> mem, base |-> base, len |-> len, fault |-> fault]

InSpace(s, a) == a >= s.base /\ a + 8 <= s.base + s.len /\ (a - s.base) % 8 = 0

Rd(s, a) == IF InSpace(s, a) THEN s.mem[(a - s.base) \div 8] ELSE 0

Wr(s, a, v) ==
    IF s.fault # "none" THEN s
    ELSE IF InSpace(s, a) THEN [s EXCEPT !.mem[(a - s.base) \div 8] = v]
    ELSE [s EXCEPT !.fault = "ub"]

Fail(s, what) == IF s.fault # "none" THEN s ELSE [s EXCEPT !.fault = what]

\* usize subtraction, wrapping below zero
WrapSub(a, b) == IF a >= b THEN a - b ELSE MaxUsize - (b - a) + 1

Max(a, b) == IF a >= b THEN a ELSE b
Min(a, b) == IF a <= b THEN a ELSE b

(********************************* Chunk ***********************************)
\* Each operator takes the machine s as the code finds it and gives the
\* machine as the code leaves it; a procedure of several statements is a chain
\* of such operators, one per statement, applied in the code's order.
GetInUse(s, c) == Rd(s, c) % 2 = 1

GetLowerInUse(s, c) == (Rd(s, c) \div 2) % 2 = 1

SetLowerInUse(s, c, b) ==
    Wr(s, c, Rd(s, c) - 2 * ((Rd(s, c) \div 2) % 2) + (IF b THEN 2 ELSE 0))

GetSize(s, c) == Rd(s, c) - (Rd(s, c) % (META_MASK + 1))

GetPrev(s, c) == Rd(s, c + 8)

SetPrev(s, c, p) == Wr(s, c + 8, p)

GetNext(s, c) == Rd(s, c + 16)

SetNext(s, c, n) == Wr(s, c + 16, n)

IsTop(s, c) == GetNext(s, c) = 0

GetHigherChunk(s, c) == c + GetSize(s, c)

\* set_in_use_and_size, first statements: the meta word keeps its bits 1 and 2
SetMeta(s, c, in_use, size) ==
    Wr(s, c, (Rd(s, c) % (META_MASK + 1)) - (Rd(s, c) % 2) + (IF in_use THEN 1 ELSE 0) + size)

\* set_in_use_and_size, the update of the higher neighbour
SetHigherFlag(s, c, in_use, prev_in_use) ==
    IF prev_in_use \/ in_use \/ ~IsTop(s, c)
    THEN SetLowerInUse(s, GetHigherChunk(s, c), in_use)
    ELSE s

\* set_in_use_and_size, the footer of a free chunk
SetFooter(s, c, in_use, size) == IF ~in_use THEN Wr(s, c + size - 8, size) ELSE s

SetInUseAndSize(s, c, in_use, size) ==
    SetFooter(SetHigherFlag(SetMeta(s, c, in_use, size), c, in_use, GetInUse(s, c)),
              c, in_use, size)

AlignOffset(addr, align) == (align - (addr % align)) % align

\* get_user_data with the alignment measured from the chunk's start instead
\* of from its first user byte
GetUserData_AlignChunk(s, c, size, align) ==
    IF size + AlignOffset(c, align) > WrapSub(GetSize(s, c), META_SIZE) THEN 0
    ELSE c + 8 + AlignOffset(c, align)

\* 0 for None
GetUserData(s, c, size, align) ==
    IF size + AlignOffset(c + 8, align) > WrapSub(GetSize(s, c), META_SIZE) THEN 0
    ELSE c + 8 + AlignOffset(c + 8, align)

FromUserData(s, user_data, align) ==
    IF align <= 8 THEN user_data - 8
    ELSE IF ~GetInUse(s, user_data - 8) THEN user_data - 8 - GetSize(s, user_data - 8)
    ELSE user_data - 8

RoundUp8(n) == IF n % 8 # 0 THEN n + (8 - (n % 8)) ELSE n

\* the size split would leave to self if it forgot the padding
SplitSize_NoPadding(s, c, size, align) == RoundUp8(Max(META_SIZE + size, MIN_SIZE))

\* the chunk size split leaves to self
SplitSize(s, c, size, align) ==
    RoundUp8(Max(META_SIZE + (GetUserData(s, c, size, align) - 8 - c) + size, MIN_SIZE))

\* split, the last statement: self keeps its IN_USE and shrinks
ShrinkSelf(s, c, new_size) == SetInUseAndSize(s, c, GetInUse(s, c), new_size)

\* split once new_size is known
SplitAt(s, c, new_size) ==
    IF WrapSub(GetSize(s, c), new_size) < MIN_SIZE THEN [s |-> s, remain |-> 0]
    ELSE [s |-> ShrinkSelf(SetInUseAndSize(s, c + new_size, FALSE,
                                           WrapSub(GetSize(s, c), new_size)),
                           c, new_size),
          remain |-> c + new_size]

\* [s |-> the machine afterwards, remain |-> the remainder chunk or 0]
Split(s, c, size, align) ==
    IF GetUserData(s, c, size, align) = 0 THEN [s |-> Fail(s, "panic"), remain |-> 0]
    ELSE SplitAt(s, c, SplitSize(s, c, size, align))

\* 0 for None
GetFreeLowerChunk(s, c) ==
    IF GetLowerInUse(s, c) THEN 0 ELSE c - Rd(s, c - 8)

GetFreeHigherChunk(s, c) ==
    IF GetInUse(s, GetHigherChunk(s, c)) THEN 0 ELSE GetHigherChunk(s, c)

\* a coalesce that writes the new size and leaves the chunk above alone
Coalesce_MetaOnly(s, c, other) ==
    SetMeta(s, c, GetInUse(s, c), GetSize(s, c) + GetSize(s, other))

Coalesce(s, c, other) ==
    SetInUseAndSize(s, c, GetInUse(s, c), GetSize(s, c) + GetSize(s, other))

(******************************** Overlay **********************************)
StartChunk(s) == s.base + 8 * BINS_LEN

\* 0 for None
GetBinChunk(s, index) == Rd(s, s.base + 8 * index)

SetBinChunk(s, index, c) == Wr(s, s.base + 8 * index, c)

RECURSIVE Log2(_)
\* index of the most significant bit of n >= 1
Log2(n) == IF n <= 1 THEN 0 ELSE 1 + Log2(n \div 2)

RECURSIVE Pow2(_)
Pow2(k) == IF k = 0 THEN 1 ELSE 2 * Pow2(k - 1)

\* a bin index that lets the second of four class bits decide the quarter
SortedBinIndex_Shift5(size, m) ==
    EXACT_BINS_LEN + 4 * m + ((size \div Pow2(m + 5)) % 4)

\* the last branch of bin_index_of_size, m the index of the top bit of size >> 8
SortedBinIndex(size, m) == EXACT_BINS_LEN + 4 * m + ((size \div Pow2(m + 6)) % 4)

\* bin_index_of_size after the clamp to MIN_USER_SIZE
BinIndexClamped(size) ==
    IF size \div 256 = 0 THEN size \div 8
    ELSE IF size \div 256 >= 65536 THEN BINS_LEN - 1
    ELSE SortedBinIndex(size, Log2(size \div 256))

\* a bin index computed from the size as given, without the clamp
BinIndexOfSize_NoClamp(size) == BinIndexClamped(size)

BinIndexOfSize(size) == BinIndexClamped(Max(size, MIN_USER_SIZE))

\* the bin a chunk belongs to: the class of the user bytes it can hold
ChunkBinIndex(s, c) == BinIndexOfSize(WrapSub(GetSize(s, c), META_SIZE))

\* the lowest of a non-empty set of bin indices
LowestBin(bins) == CHOOSE i \in bins : \A j \in bins : i <= j

\* the head of the first non-empty bin at or above index, 0 when there is none
FirstBinFrom(s, index) ==
    IF \A i \in index..(BINS_LEN - 1) : GetBinChunk(s, i) = 0 THEN 0
    ELSE GetBinChunk(s, LowestBin({i \in index..(BINS_LEN - 1) : GetBinChunk(s, i) # 0}))

RECURSIVE AddWalk(_, _, _, _)
\* the entry add_chunk inserts before; -1 when the walk does not end
AddWalk(s, bin_chunk, chunk_size, fuel) ==
    IF fuel = 0 THEN -1
    ELSE IF ~IsTop(s, bin_chunk) /\ GetSize(s, bin_chunk) <= chunk_size
    THEN AddWalk(s, GetNext(s, bin_chunk), chunk_size, fuel - 1)
    ELSE bin_chunk

\* chunk.set_prev(other.get_prev())
CopyPrev(s, c, other) == SetPrev(s, c, GetPrev(s, other))

\* if let Some(prev) = c.get_prev() { prev.set_next(Some(n)) }
SetNextOfPrev(s, c, n) == IF GetPrev(s, c) # 0 THEN SetNext(s, GetPrev(s, c), n) ELSE s

\* add_chunk, the four link writes
InsertBefore(s, c, bin_chunk) ==
    IF bin_chunk = -1 THEN Fail(s, "hang")
    ELSE SetNextOfPrev(SetPrev(CopyPrev(SetNext(s, c, bin_chunk), c, bin_chunk), bin_chunk, c),
                       c, c)

\* add_chunk from the entry the walk starts at
AddFrom(s, c, head) ==
    IF head = 0 THEN Fail(s, "panic")
    ELSE InsertBefore(s, c, AddWalk(s, head, GetSize(s, c), Fuel))

\* add_chunk into an empty bin: the walk starts at the next non-empty bin
AddFromNextBin(s, c, index) == AddFrom(s, c, FirstBinFrom(s, index + 1))

AddChunk(s, c) ==
    IF GetBinChunk(s, ChunkBinIndex(s, c)) = 0
    THEN AddFromNextBin(SetBinChunk(s, ChunkBinIndex(s, c), c), c, ChunkBinIndex(s, c))
    ELSE AddFrom(s, c, GetBinChunk(s, ChunkBinIndex(s, c)))

\* remove_chunk, the bin slot: the next chunk is classed by its whole size
FixBinSlot(s, c, next_chunk, index) ==
    IF GetBinChunk(s, index) = c
    THEN SetBinChunk(s, index,
                     IF BinIndexOfSize(GetSize(s, next_chunk)) = index THEN next_chunk ELSE 0)
    ELSE s

\* remove_chunk once next_chunk is known
Unlink(s, c, next_chunk) ==
    FixBinSlot(SetNextOfPrev(CopyPrev(s, next_chunk, c), c, next_chunk),
               c, next_chunk, ChunkBinIndex(s, c))

RemoveChunk(s, c) ==
    IF GetNext(s, c) = 0 THEN Fail(s, "panic") ELSE Unlink(s, c, GetNext(s, c))

\* update_top_chunk, the slot of the last bin
MoveTopBin(s, top, new_top, index) ==
    IF GetBinChunk(s, index) = top THEN SetBinChunk(s, index, new_top) ELSE s

UpdateTopChunk(s, top, new_top) ==
    MoveTopBin(SetNextOfPrev(CopyPrev(SetNext(s, new_top, 0), new_top, top), top, new_top),
               top, new_top, BinIndexOfSize(MaxUsize))

\* set_bin_chunk(i, None) for every i from index up
ClearBins(s, index) ==
    IF s.fault # "none" THEN s
    ELSE [s EXCEPT !.mem = [w \in DOMAIN s.mem |->
                               IF w >= index /\ w < BINS_LEN THEN 0 ELSE s.mem[w]]]

\* the sentinel 0x82 goes into the low byte of word 0
WriteMarker(s) == Wr(s, s.base, Rd(s, s.base) - (Rd(s, s.base) % 256) + 130)

\* init, the top chunk
InitTop(s, top_chunk) ==
    SetBinChunk(SetPrev(SetNext(SetInUseAndSize(s, top_chunk, FALSE, MIN_SIZE),
                                top_chunk, 0),
                        top_chunk, 0),
                BinIndexOfSize(MaxUsize), top_chunk)

\* an init that leaves the first chunk's LOWER_IN_USE as set_in_use_and_size
\* left it
InitChunks_NoLower(s, chunk, chunk_size) ==
    WriteMarker(AddChunk(InitTop(SetInUseAndSize(s, chunk, FALSE, chunk_size),
                                 chunk + chunk_size),
                         chunk))

\* init, the first chunk and what follows it
InitChunks(s, chunk, chunk_size) ==
    WriteMarker(AddChunk(InitTop(SetLowerInUse(SetInUseAndSize(s, chunk, FALSE, chunk_size),
                                               chunk, TRUE),
                                 chunk + chunk_size),
                         chunk))

OverlayInit(s, length) ==
    IF length < 8 * BINS_LEN + MIN_SIZE * 2 \/ length % 8 # 0 THEN Fail(s, "panic")
    ELSE InitChunks(ClearBins(s, BinIndexOfSize(MIN_USER_SIZE)), StartChunk(s),
                    (s.base + length) - StartChunk(s) - MIN_SIZE)

RECURSIVE AllocWalk(_, _, _, _, _)
\* the first chunk from c on that can hold the layout: [chunk, ok]; ok is FALSE
\* when the walk ends at a chunk without a next (Err(chunk)); chunk is -1 when
\* the walk does not end
AllocWalk(s, c, size, align, fuel) ==
    IF fuel = 0 THEN [chunk |-> -1, ok |-> FALSE]
    ELSE IF GetUserData(s, c, size, align) # 0 THEN [chunk |-> c, ok |-> TRUE]
    ELSE IF GetNext(s, c) # 0 THEN AllocWalk(s, GetNext(s, c), size, align, fuel - 1)
    ELSE [chunk |-> c, ok |-> FALSE]

FindSmallest(s, min_size) == FirstBinFrom(s, BinIndexOfSize(min_size))

\* if let Some(remain) = chunk.split(layout) { self.add_chunk(remain) }
AddRemain(sp) == IF sp.remain # 0 THEN AddChunk(sp.s, sp.remain) ELSE sp.s

MarkInUse(s, c) == SetInUseAndSize(s, c, TRUE, GetSize(s, c))

\* the padding word below an aligned user pointer
WritePadding(s, c, user_data) ==
    IF user_data - 8 - c # 0 THEN Wr(s, user_data - 8, user_data - 8 - c) ELSE s

\* alloc once the chunk is chosen
TakeChunk(s, c, size, align, user_data) ==
    [s |-> WritePadding(MarkInUse(AddRemain(Split(RemoveChunk(s, c), c, size, align)), c),
                        c, user_data),
     ok |-> TRUE, val |-> user_data]

\* alloc after the walk
AllocFound(s, size, align, found) ==
    IF found.chunk = -1 THEN [s |-> Fail(s, "hang"), ok |-> FALSE, val |-> 0]
    ELSE IF ~found.ok \/ IsTop(s, found.chunk) THEN [s |-> s, ok |-> FALSE, val |-> found.chunk]
    ELSE TakeChunk(s, found.chunk, size, align, GetUserData(s, found.chunk, size, align))

\* alloc from the head find_smallest gives
AllocFrom(s, size, align, first) ==
    IF first = 0 THEN [s |-> Fail(s, "panic"), ok |-> FALSE, val |-> 0]
    ELSE AllocFound(s, size, align, AllocWalk(s, first, size, align, Fuel))

\* an alloc that searches the bins for a layout of size 0 as for any other
OverlayAlloc_NoZero(s, size, align) == AllocFrom(s, size, align, FindSmallest(s, size))

\* Overlay::alloc: [s, ok, val]; ok with val the user pointer, or ~ok with val
\* the chunk the search ended at
OverlayAlloc(s, size, align) ==
    IF size = 0 THEN [s |-> s, ok |-> TRUE, val |-> Dangling]
    ELSE AllocFrom(s, size, align, FindSmallest(s, size))

MarkFree(s, c) == SetInUseAndSize(s, c, FALSE, GetSize(s, c))

\* dealloc, the merge into the free lower chunk
MergeLower(s, c, free_lower) ==
    Coalesce(MarkFree(RemoveChunk(s, free_lower), c), free_lower, c)

\* remove_chunk(free_higher); chunk.coalesce(free_higher)
MergeHigher(s, c, free_higher) == Coalesce(RemoveChunk(s, free_higher), c, free_higher)

\* dealloc, the higher neighbour and the final add
DeallocHigher(s, c) ==
    AddChunk(IF GetFreeHigherChunk(s, c) # 0 /\ ~IsTop(s, GetFreeHigherChunk(s, c))
             THEN MergeHigher(s, c, GetFreeHigherChunk(s, c))
             ELSE s,
             c)

\* dealloc once the chunk is recovered
DeallocChunk(s, c) ==
    IF GetFreeLowerChunk(s, c) # 0
    THEN DeallocHigher(MergeLower(s, c, GetFreeLowerChunk(s, c)), GetFreeLowerChunk(s, c))
    ELSE DeallocHigher(MarkFree(s, c), c)

\* from_user_data and dealloc read the word below the pointer as a chunk
\* header; for a pointer whose header word is not a word of the space that
\* read is undefined, whatever it yields
OverlayDealloc(s, user_data, align) ==
    IF ~InSpace(s, user_data - 8) THEN Fail(s, "ub")
    ELSE DeallocChunk(s, FromUserData(s, user_data, align))

\* realloc after the coalescing
ReallocSplit(s, c, new_size, align) ==
    IF GetUserData(s, c, new_size, align) # 0
    THEN [s |-> AddRemain(Split(s, c, new_size, align)),
          val |-> GetUserData(s, c, new_size, align)]
    ELSE [s |-> s, val |-> 0]

\* realloc once the chunk is recovered
ReallocChunk(s, c, new_size, align, free_higher) ==
    IF GetUserData(s, c, new_size, align) # 0
    THEN [s |-> s, val |-> GetUserData(s, c, new_size, align)]
    ELSE IF free_higher = 0 THEN [s |-> s, val |-> 0]
    ELSE IF IsTop(s, free_higher)
            \/ GetSize(s, c) + GetSize(s, free_higher) < new_size + META_SIZE
    THEN [s |-> s, val |-> 0]
    ELSE ReallocSplit(MergeHigher(s, c, free_higher), c, new_size, align)

\* 0 when the chunk itself can hold the new layout (the neighbour is not read)
HigherForRealloc(s, c, new_size, align) ==
    IF GetUserData(s, c, new_size, align) # 0 THEN 0 ELSE GetFreeHigherChunk(s, c)

\* Overlay::realloc: [s, val]; val the user pointer or 0 for None
OverlayRealloc(s, user_data, align, new_size) ==
    ReallocChunk(s, FromUserData(s, user_data, align), new_size, align,
                 HigherForRealloc(s, FromUserData(s, user_data, align), new_size, align))

(********************************* Space ***********************************)
RECURSIVE NextPowerOfTwo(_)
NextPowerOfTwo(n) == IF n <= 1 THEN 1 ELSE 2 * NextPowerOfTwo((n + 1) \div 2)

\* usize addition as the build without overflow checks computes it
WrapAdd(a, b) == (a + b) % (MaxUsize + 1)

\* usize::next_power_of_two: 0 when the power does not fit a usize
NextPowerOfTwoWrapped(n) ==
    IF n > (MaxUsize + 1) \div 2 THEN 0 ELSE NextPowerOfTwo(n)

\* the factor Space::grow multiplies the length by
GrowFactor(length, min_bytes) ==
    Max(NextPowerOfTwoWrapped(WrapAdd(min_bytes \div length, 1)), 1)

\* checked_mul's None
NoSize == 0 - 1

\* Space::grow computes this size and hands it to set_size
GrowSize(length, min_bytes) ==
    IF GrowFactor(length, min_bytes) > MaxUsize \div length THEN NoSize
    ELSE length * GrowFactor(length, min_bytes)

\* set_size recording the requested length before the provider has answered
SetSize_Torn(s, provider, bytes, remap_ok) ==
    [s |-> [s EXCEPT !.len = Min(bytes, MaxLen)],
     ok |-> bytes = s.len \/ (provider = "mmap" /\ remap_ok /\ bytes <= MaxLen)]

\* where a provider that relocates puts a space that was at base b: a fresh
\* range clear of the old one, which is unmapped
MovedTo(b) == b + NextPowerOfTwo(MaxLen)

\* a set_size that answers for the fixed provider without comparing lengths
SetSize_FixedRefuses(s, provider, bytes, remap_ok) ==
    IF provider = "fixed" THEN [s |-> s, ok |-> FALSE]
    ELSE IF bytes = s.len THEN [s |-> s, ok |-> TRUE]
    ELSE IF ~(remap_ok /\ bytes <= MaxLen) THEN [s |-> s, ok |-> FALSE]
    ELSE IF provider = "moving"
    THEN [s |-> [s EXCEPT !.len = bytes, !.base = MovedTo(s.base)], ok |-> TRUE]
    ELSE [s |-> [s EXCEPT !.len = bytes], ok |-> TRUE]

\* Fixed::set_size, and Mmap::set_size with mremap's answer as remap_ok; the
\* provider maps at most MaxLen bytes.  New bytes of a mapping read as zero.
\* Mmap passes no MREMAP_MAYMOVE and stays at its base; "moving" is a Space
\* whose set_size keeps the bytes at the same offsets and changes the base
\* pointer, as the trait allows.
SetSize(s, provider, bytes, remap_ok) ==
    IF bytes = s.len THEN [s |-> s, ok |-> TRUE]
    ELSE IF provider = "fixed" THEN [s |-> s, ok |-> FALSE]
    ELSE IF ~(remap_ok /\ bytes <= MaxLen) THEN [s |-> s, ok |-> FALSE]
    ELSE IF provider = "moving"
    THEN [s |-> [s EXCEPT !.len = bytes, !.base = MovedTo(s.base)], ok |-> TRUE]
    ELSE [s |-> [s EXCEPT !.len = bytes], ok |-> TRUE]

\* Space::grow; the division panics on a space of no bytes
Grow(s, provider, min_bytes, remap_ok) ==
    IF s.len = 0 THEN [s |-> Fail(s, "panic"), ok |-> FALSE]
    ELSE IF GrowSize(s.len, min_bytes) = NoSize THEN [s |-> s, ok |-> FALSE]
    ELSE SetSize(s, provider, GrowSize(s.len, min_bytes), remap_ok)

\* the grow path: the new top chunk takes the place of the old one in the list
PlaceNewTop(s, top, new_top) ==
    UpdateTopChunk(SetInUseAndSize(SetNext(SetPrev(s, new_top, 0), new_top, 0),
                                   new_top, FALSE, MIN_SIZE),
                   top, new_top)

\* the grow path: free_lower takes in the old top ("not coalescing because
\* top looks like a top chunk")
ExtendLower(s, top, free_lower) ==
    SetInUseAndSize(s, free_lower, FALSE, GetSize(s, free_lower) + GetSize(s, top))

\* the grow path: the old top, now a free chunk, goes into the bins
AddOldTop(s, top) ==
    IF GetFreeLowerChunk(s, top) # 0
    THEN AddChunk(ExtendLower(RemoveChunk(s, GetFreeLowerChunk(s, top)), top,
                              GetFreeLowerChunk(s, top)),
                  GetFreeLowerChunk(s, top))
    ELSE AddChunk(s, top)

\* the grow path from the new length on, before the second try: the new top
\* chunk, then the old top as a free chunk of the added bytes
Regrown(s, top, old_size) ==
    AddOldTop(SetInUseAndSize(PlaceNewTop(s, top, s.base + s.len - MIN_SIZE),
                              top, FALSE, s.len - old_size),
              top)

\* the grow path from the new length on, up to the second try
Regrow(s, top, old_size, size, align) ==
    OverlayAlloc(Regrown(s, top, old_size), size, align)

\* .expect("second allocating try always success")
ExpectSecond(second) ==
    IF ~second.ok THEN [s |-> Fail(second.s, "panic"), val |-> 0, grew |-> TRUE]
    ELSE [s |-> second.s, val |-> second.val, grew |-> TRUE]

\* alloc_in_space after grow has answered
AfterGrow(g, top, old_size, size, align) ==
    IF ~g.ok THEN [s |-> g.s, val |-> 0, grew |-> FALSE]
    ELSE IF g.s.len % 8 # 0 THEN [s |-> Fail(g.s, "panic"), val |-> 0, grew |-> TRUE]
    ELSE ExpectSecond(Regrow(g.s, top, old_size, size, align))

\* alloc_in_space after the first try
AfterFirstTry(first, provider, remap_ok, size, align) ==
    IF first.ok \/ first.s.fault # "none"
    THEN [s |-> first.s, val |-> IF first.ok THEN first.val ELSE 0, grew |-> FALSE]
    ELSE AfterGrow(Grow(first.s, provider, first.s.len + size + align + META_SIZE, remap_ok),
                   first.val, first.s.len, size, align)

\* Overlay::alloc_in_space: [s, val, grew]; val the returned pointer, 0 for null
AllocInSpace(s, provider, remap_ok, size, align) ==
    AfterFirstTry(OverlayAlloc(s, size, align), provider, remap_ok, size, align)

DeallocInSpace(s, user_data, align) == OverlayDealloc(s, user_data, align)

RECURSIVE CopyWords(_, _, _, _)
\* copy_nonoverlapping(src, dst, 8 * n)
CopyWords(s, src, dst, n) ==
    IF n = 0 THEN s
    ELSE CopyWords(Wr(s, dst + 8 * (n - 1), Rd(s, src + 8 * (n - 1))), src, dst, n - 1)

\* realloc_in_space, the fallback after the new allocation
MoveTo(a, user_data, size, align) ==
    IF a.val = 0 THEN [s |-> a.s, val |-> 0, grew |-> a.grew, moved |-> FALSE]
    ELSE [s |-> DeallocInSpace(CopyWords(a.s, user_data, a.val, size \div 8), user_data, align),
          val |-> a.val, grew |-> a.grew, moved |-> TRUE]

\* realloc_in_space after Overlay::realloc
AfterRealloc(r, provider, remap_ok, user_data, size, align, new_size) ==
    IF r.val # 0 \/ r.s.fault # "none"
    THEN [s |-> r.s, val |-> r.val, grew |-> FALSE, moved |-> FALSE]
    ELSE MoveTo(AllocInSpace(r.s, provider, remap_ok, new_size, align), user_data, size, align)

\* Overlay::realloc_in_space: [s, val, grew, moved]
ReallocInSpace(s, provider, remap_ok, user_data, size, align, new_size) ==
    AfterRealloc(OverlayRealloc(s, user_data, align, new_size),
                 provider, remap_ok, user_data, size, align, new_size)

(***************************** chunk iteration *****************************)
RECURSIVE IterAllChunk(_, _, _)
\* Overlay::iter_all_chunk from chunk c: the chunks up to the first free chunk
\* without a next; cut off after fuel chunks
IterAllChunk(s, c, fuel) ==
    IF fuel = 0 THEN <<>>
    ELSE IF GetInUse(s, c) \/ ~IsTop(s, c)
    THEN <<c>> \o IterAllChunk(s, GetHigherChunk(s, c), fuel - 1)
    ELSE <<c>>

AllChunks(s) == IterAllChunk(s, StartChunk(s), Fuel)

RECURSIVE IterFreeFrom(_, _, _)
IterFreeFrom(s, c, fuel) ==
    IF fuel = 0 \/ c = 0 THEN <<>>
    ELSE <<c>> \o IterFreeFrom(s, GetNext(s, c), fuel - 1)

\* Overlay::iter_free_chunk
FreeChunks(s) == IterFreeFrom(s, FindSmallest(s, 0), Fuel)

(********************************* driver **********************************)
\* The driver is Method::run_fuzz: it keeps the outstanding allocations
\* (pointer and layout), frees and reallocates only those, and writes only
\* into bytes it owns.  left counts the steps it may still take.
Range(seq) == {seq[i] : i \in 1..Len(seq)}

RECURSIVE InsertSorted(_, _)
InsertSorted(seq, o) ==
    IF seq = <<>> THEN <<o>>
    ELSE IF o.ptr <= Head(seq).ptr THEN <<o>> \o seq
    ELSE <<Head(seq)>> \o InsertSorted(Tail(seq), o)

RemoveAt(seq, i) == SubSeq(seq, 1, i - 1) \o SubSeq(seq, i + 1, Len(seq))

NoOp == [op |-> "init", ptr |-> 0, size |-> 0, align |-> 1, new_size |-> 0,
         ret |-> 0, grew |-> FALSE, moved |-> FALSE]

\* the threads that call the allocator
Threads == 1..MaxThreads

\* a thread outside any call; ret is what its last call returned and exp what
\* that call returns when the calls run one after another
NoCall == [op |-> "none", ptr |-> 0, size |-> 0, align |-> 1, new_size |-> 0,
           remap_ok |-> FALSE]

NoResult == [s |-> [mem |-> <<>>, base |-> 0, len |-> 0, fault |-> "none"],
             val |-> 0, grew |-> FALSE, moved |-> FALSE]

Idle == [pc |-> "idle", req |-> NoCall, pend |-> NoResult, exp |-> 0, ret |-> 0,
         done |-> FALSE]

\* out is the last application of a function that works on no chunk: the
\* function, its arguments and, once it has run, what it gave
NoApply == [fn |-> "none", args |-> <<>>, val |-> <<>>]

\* switch is the Switchable around the allocator: its enable flag, the blocks
\* the System allocator has handed out, and for each thread where the block
\* its call is about came from
NoSwitch == [enable |-> TRUE, sys |-> <<>>, from |-> [t \in Threads |-> "none"]]

ZeroMachine(b, length) ==
    [mem |-> [w \in 0..(MaxWords - 1) |-> 0], base |-> b, len |-> length, fault |-> "none"]

\* born is the history of add_chunk: the free chunks below the top chunk in
\* the order C30 gives the free list, by size and, among chunks of one size,
\* the one added in an earlier call first.
FreeBelowTop(s) ==
    SelectSeq(AllChunks(s), LAMBDA c : ~GetInUse(s, c) /\ c # s.base + s.len - MIN_SIZE)

\* the entries of b that the call from space s0 to space s1 has left alone
KeptBorn(b, s0, s1, free) ==
    SelectSeq(b, LAMBDA c : c \in Range(free) /\ GetSize(s1, c) = GetSize(s0, c))

\* chunk c of space s holds the user pointer p
HoldsPointer(s, c, p) == p # 0 /\ c < p /\ p < c + GetSize(s, c)

\* the chunks a call has added, in the order of its add_chunk calls: realloc
\* adds what its new allocation leaves over before it frees the old chunk
AddedBy(kept, s, free, freed) ==
    SelectSeq(free, LAMBDA c : c \notin Range(kept) /\ ~HoldsPointer(s, c, freed))
        \o SelectSeq(free, LAMBDA c : c \notin Range(kept) /\ HoldsPointer(s, c, freed))

\* how many entries of q come before entry i when every entry goes behind
\* the entries that are not larger
BornRank(q, s, i) ==
    Cardinality({j \in 1..Len(q) :
                    \/ GetSize(s, q[j]) < GetSize(s, q[i])
                    \/ GetSize(s, q[j]) = GetSize(s, q[i]) /\ j < i})

\* q by size, entries of one size in the order they have in q
BySizeThenAge(q, s) ==
    [r \in 1..Len(q) |-> q[CHOOSE i \in 1..Len(q) : BornRank(q, s, i) = r - 1]]

\* born after a call that leaves space s and was given the allocation at
\* freed (0 for alloc)
RecordAdds(s, freed) ==
    IF s.fault # "none" THEN born' = born
    ELSE \E free \in {FreeBelowTop(s)} : \E kept \in {KeptBorn(born, Machine, s, free)} :
         \E q \in {kept \o AddedBy(kept, s, free, freed)} : born' = BySizeThenAge(q, s)

\* a space of length bytes that holds the words stale (word offset |-> value)
\* and zero everywhere else
StaleMachine(b, length, stale) ==
    [mem |-> [w \in 0..(MaxWords - 1) |-> IF w \in DOMAIN stale THEN stale[w] ELSE 0],
     base |-> b, len |-> length, fault |-> "none"]

\* Allocator::new on a space of length bytes with the contents stale
AllocatorNewOn(length, stale) ==
    /\ base \in Bases
    /\ len = length
    /\ \E s \in {OverlayInit(StaleMachine(base, length, stale), length)} :
           /\ mem = s.mem
           /\ fault = s.fault
    /\ live = <<>>
    /\ last = NoOp
    /\ phase = "build"
    /\ lock = FALSE
    /\ thr = [t \in Threads |-> Idle]
    /\ serial = Machine
    /\ born = FreeBelowTop(Machine)
    /\ out = NoApply
    /\ switch = NoSwitch

\* Allocator::new on a zero-filled space of length bytes
AllocatorNew(length) == AllocatorNewOn(length, <<>>)

Init == AllocatorNew(InitLen) /\ left = MaxOps

InitFixed == AllocatorNew(FixedLen) /\ left = MaxFixedOps

Commit(s, freed) ==
    /\ RecordAdds(s, freed)
    /\ mem' = s.mem
    /\ len' = s.len
    /\ base' = s.base
    /\ fault' = s.fault
    /\ left' = left - 1
    /\ UNCHANGED <<lock, thr, serial, out, switch>>

\* phase tells the shape of the calls so far: "build" while every call was an
\* alloc or realloc that returned a pointer, "drain" once only deallocs have
\* followed those, "mixed" for every other history
AfterCall(success) == IF phase = "build" /\ success THEN "build" ELSE "mixed"

\* GlobalAlloc::alloc on Allocator<provider>
DoAlloc(provider, size, align, remap_ok) ==
    /\ fault = "none"
    /\ left > 0
    /\ Len(live) < MaxLive
    /\ \E r \in {AllocInSpace(Machine, provider, remap_ok, size, align)} :
           /\ Commit(r.s, 0)
           /\ live' = IF r.val # 0 /\ r.s.fault = "none"
                      THEN InsertSorted(live, [ptr |-> r.val, size |-> size, align |-> align])
                      ELSE live
           /\ last' = [op |-> "alloc", ptr |-> 0, size |-> size, align |-> align,
                       new_size |-> 0, ret |-> r.val, grew |-> r.grew, moved |-> FALSE]
           /\ phase' = AfterCall(r.val # 0 /\ r.s.fault = "none")

\* GlobalAlloc::dealloc
DoDealloc(i) ==
    /\ fault = "none"
    /\ left > 0
    /\ i \in 1..Len(live)
    /\ \E o \in {live[i]} : \E s \in {DeallocInSpace(Machine, o.ptr, o.align)} :
           /\ Commit(s, o.ptr)
           /\ live' = RemoveAt(live, i)
           /\ last' = [op |-> "dealloc", ptr |-> o.ptr, size |-> o.size, align |-> o.align,
                       new_size |-> 0, ret |-> 0, grew |-> FALSE, moved |-> FALSE]
           /\ phase' = IF phase \in {"build", "drain"} THEN "drain" ELSE "mixed"

\* GlobalAlloc::realloc on Allocator<provider>
DoRealloc(provider, i, new_size, remap_ok) ==
    /\ fault = "none"
    /\ left > 0
    /\ i \in 1..Len(live)
    /\ \E o \in {live[i]} :
       \E r \in {ReallocInSpace(Machine, provider, remap_ok, o.ptr, o.size, o.align, new_size)} :
           /\ Commit(r.s, o.ptr)
           /\ live' = IF r.val # 0 /\ r.s.fault = "none"
                      THEN InsertSorted(RemoveAt(live, i),
                                        [ptr |-> r.val, size |-> new_size, align |-> o.align])
                      ELSE live
           /\ last' = [op |-> "realloc", ptr |-> o.ptr, size |-> o.size, align |-> o.align,
                       new_size |-> new_size, ret |-> r.val, grew |-> r.grew,
                       moved |-> r.moved]
           /\ phase' = AfterCall(r.val # 0 /\ r.s.fault = "none")

Pattern(v, k) == IF v = 0 THEN 0 ELSE v + 8 * k

RECURSIVE FillWords(_, _, _, _)
FillWords(s, ptr, v, n) ==
    IF n = 0 THEN s ELSE FillWords(Wr(s, ptr + 8 * (n - 1), Pattern(v, n - 1)), ptr, v, n - 1)

\* the owner of allocation i fills its words
UserWrite(i, v) ==
    /\ fault = "none"
    /\ left > 0
    /\ i \in 1..Len(live)
    /\ \E m \in {FillWords(Machine, live[i].ptr, v, live[i].size \div 8).mem} :
           /\ m # mem
           /\ mem' = m
    /\ left' = left - 1
    /\ last' = [NoOp EXCEPT !.op = "write", !.ptr = live[i].ptr, !.size = live[i].size]
    /\ UNCHANGED <<base, len, fault, live, phase, lock, thr, serial, born, out, switch>>

Next ==
    \/ \E size \in Sizes, align \in Aligns, remap_ok \in BOOLEAN :
           DoAlloc("mmap", size, align, remap_ok)
    \/ \E i \in 1..MaxLive : DoDealloc(i)
    \/ \E i \in 1..MaxLive, new_size \in Sizes, remap_ok \in BOOLEAN :
           DoRealloc("mmap", i, new_size, remap_ok)
    \/ \E i \in 1..MaxLive, v \in UserVals : UserWrite(i, v)

Spec == Init /\ [][Next]_vars

\* the round-trip driver on a space that cannot grow: it allocates and
\* reallocates, and from its first dealloc on it only deallocates
NextFixed ==
    \/ phase = "build" /\ \E size \in FixedSizes : DoAlloc("fixed", size, 1, FALSE)
    \/ \E i \in 1..MaxLive : DoDealloc(i)
    \/ /\ phase = "build"
       /\ \E i \in 1..MaxLive, new_size \in FixedSizes : DoRealloc("fixed", i, new_size, FALSE)

SpecFixed == InitFixed /\ [][NextFixed]_vars

\* the layouts of the zero-size and alignment cases: GlobalAlloc takes a
\* layout of size 0, and 32 bytes at align 16 is the smallest request a free
\* 40-byte chunk may be unable to hold
EdgeSizes == {0, 32, 40, 72}

InitEdge == AllocatorNew(InitLen) /\ left = MaxEdgeOps

\* every call a caller of GlobalAlloc may make with these layouts; realloc
\* is given allocations of non-zero size and a non-zero new size
NextEdge ==
    \/ \E size \in EdgeSizes, align \in Aligns, remap_ok \in BOOLEAN :
           DoAlloc("mmap", size, align, remap_ok)
    \/ \E i \in 1..MaxLive : DoDealloc(i)
    \/ \E i \in 1..MaxLive, new_size \in EdgeSizes \ {0}, remap_ok \in BOOLEAN :
           /\ i \in 1..Len(live)
           /\ live[i].size # 0
           /\ DoRealloc("mmap", i, new_size, remap_ok)

SpecEdge == InitEdge /\ [][NextEdge]_vars

\* longer runs of fewer kinds of call: small allocations at both alignments,
\* deallocs, and reallocs that outgrow the allocation's chunk
DeepSizes == {8, 40}

DeepNewSizes == {72}

InitDeep == AllocatorNew(InitLen) /\ left = MaxDeepOps

NextDeep ==
    \/ \E size \in DeepSizes, align \in Aligns : DoAlloc("mmap", size, align, TRUE)
    \/ \E i \in 1..MaxLive : DoDealloc(i)
    \/ \E i \in 1..MaxLive, new_size \in DeepNewSizes : DoRealloc("mmap", i, new_size, TRUE)

SpecDeep == InitDeep /\ [][NextDeep]_vars

\* calls on a space whose provider relocates it when it grows
MoveSizes == {8, 40}

InitMove == AllocatorNew(InitLen) /\ left = MaxMoveOps

NextMove ==
    \/ \E size \in MoveSizes, align \in Aligns, remap_ok \in BOOLEAN :
           DoAlloc("moving", size, align, remap_ok)
    \/ \E i \in 1..MaxLive : DoDealloc(i)
    \/ \E i \in 1..MaxLive, new_size \in MoveSizes, remap_ok \in BOOLEAN :
           DoRealloc("moving", i, new_size, remap_ok)

SpecMove == InitMove /\ [][NextMove]_vars

\* a space that holds exactly three chunks of the smallest size below the
\* top chunk and cannot grow, and layouts that each take one such chunk
OrderLen == 8 * BINS_LEN + 8 * OrderWords

OrderSizes == {8, 24}

InitOrder == AllocatorNew(OrderLen) /\ left = MaxOrderOps

NextOrder ==
    \/ \E size \in OrderSizes : DoAlloc("fixed", size, 1, FALSE)
    \/ \E i \in 1..MaxLive : DoDealloc(i)

SpecOrder == InitOrder /\ [][NextOrder]_vars

\* an allocation behind a padding word and a realloc to the size that the
\* chunk and its free higher neighbour hold only without the padding
PadSizes == {8, 40, 80}

InitPad == AllocatorNew(InitLen) /\ left = MaxPadOps

NextPad ==
    \/ \E size \in PadSizes, align \in Aligns, remap_ok \in BOOLEAN :
           DoAlloc("mmap", size, align, remap_ok)
    \/ \E i \in 1..MaxLive : DoDealloc(i)
    \/ \E i \in 1..MaxLive, new_size \in PadSizes, remap_ok \in BOOLEAN :
           DoRealloc("mmap", i, new_size, remap_ok)

SpecPad == InitPad /\ [][NextPad]_vars

\* what a word of a space that was used before may hold where init writes a
\* header or reads a link: nothing, the IN_USE bit, the LOWER_IN_USE bit
StaleWords == {0, 1, 2}

\* the word offsets of the meta and next words of the first chunk and of the
\* top chunk of a space of length bytes
HeaderWords(length) ==
    {BINS_LEN, BINS_LEN + 2, (length - MIN_SIZE) \div 8, (length - MIN_SIZE) \div 8 + 2}

\* Allocator::new on a space that is not zero-filled (Fixed::from takes any
\* boxed slice), and the first calls
InitStale ==
    /\ left = MaxStaleOps
    /\ \E stale \in [HeaderWords(InitLen) -> StaleWords] : AllocatorNewOn(InitLen, stale)

SpecStale == InitStale /\ [][Next]_vars

\* the shortest length init accepts
MinLen == 8 * BINS_LEN + MIN_SIZE * 2

\* lengths a space is constructed with: multiples of 8 from the shortest
\* init accepts up to the longest the provider maps
NewLens == {MinLen, MinLen + 8, InitLen, FixedLen, MaxLen}

InitNew == left = MaxNewOps /\ \E length \in NewLens : AllocatorNew(length)

\* Allocator::new on a space of any of these lengths, and the first calls
SpecNew == InitNew /\ [][Next]_vars

(******************************** threads **********************************)
\* Several threads call one Allocator.  A call is acquire_space, the
\* operation on the space behind the guard, and the drop of the guard at the
\* end of the statement.  The operation is taken in two steps, one that
\* reads the space and one that writes it, so that two threads inside it at
\* once would show.  serial is the space of a reference run that takes each
\* call whole at the moment its thread gets the lock.
ThreadSizes == {8, 40}

\* a try_lock that gives the guard whatever the lock word reads
TryLockSucceeds_Blind(l) == TRUE

\* Mutex::try_lock on a lock word that reads l: the compare-exchange from
\* false to true succeeds exactly when the word is false
TryLockSucceeds(l) == ~l

AllocResult(r) == [s |-> r.s, val |-> r.val, grew |-> r.grew, moved |-> FALSE]

DeallocResult(s) == [s |-> s, val |-> 0, grew |-> FALSE, moved |-> FALSE]

\* the GlobalAlloc method of call q on space s: [s, val, grew, moved]
CallResult(s, q) ==
    IF q.op = "alloc"
    THEN AllocResult(AllocInSpace(s, "mmap", q.remap_ok, q.size, q.align))
    ELSE IF q.op = "dealloc" THEN DeallocResult(DeallocInSpace(s, q.ptr, q.align))
    ELSE ReallocInSpace(s, "mmap", q.remap_ok, q.ptr, q.size, q.align, q.new_size)

\* the allocations outstanding once call q has returned val
LiveAfter(l, q, val) ==
    IF q.op = "alloc"
    THEN IF val # 0 THEN InsertSorted(l, [ptr |-> val, size |-> q.size, align |-> q.align])
         ELSE l
    ELSE IF q.op = "dealloc" THEN l
    ELSE IF val # 0 THEN InsertSorted(l, [ptr |-> val, size |-> q.new_size, align |-> q.align])
    ELSE InsertSorted(l, [ptr |-> q.ptr, size |-> q.size, align |-> q.align])

InitThreads == AllocatorNew(InitLen) /\ left = MaxThreadOps

\* thread t calls a method with arguments q; an allocation handed to dealloc
\* or realloc is in that call's hands until it returns
Issue(t, q, l) ==
    /\ fault = "none"
    /\ left > 0
    /\ thr[t].pc = "idle"
    /\ thr' = [thr EXCEPT ![t] = [Idle EXCEPT !.pc = "acquire", !.req = q]]
    /\ live' = l
    /\ left' = left - 1
    /\ UNCHANGED <<mem, base, len, fault, last, phase, lock, serial, born, out, switch>>

CallAlloc(t, size, align, remap_ok) ==
    /\ Len(live) + Cardinality({u \in Threads : thr[u].pc # "idle"}) < MaxLive
    /\ Issue(t, [NoCall EXCEPT !.op = "alloc", !.size = size, !.align = align,
                               !.remap_ok = remap_ok], live)

CallDealloc(t, i) ==
    /\ i \in 1..Len(live)
    /\ Issue(t, [NoCall EXCEPT !.op = "dealloc", !.ptr = live[i].ptr, !.size = live[i].size,
                               !.align = live[i].align], RemoveAt(live, i))

CallRealloc(t, i, new_size, remap_ok) ==
    /\ i \in 1..Len(live)
    /\ Issue(t, [NoCall EXCEPT !.op = "realloc", !.ptr = live[i].ptr, !.size = live[i].size,
                               !.align = live[i].align, !.new_size = new_size,
                               !.remap_ok = remap_ok], RemoveAt(live, i))

\* one turn of the loop in acquire_space: try_lock either gives the guard or
\* the thread tries again
TryLock(t) ==
    /\ fault = "none"
    /\ thr[t].pc = "acquire"
    /\ IF TryLockSucceeds(lock)
       THEN /\ lock' = TRUE
            /\ \E r \in {CallResult(serial, thr[t].req)} :
                   /\ serial' = r.s
                   /\ thr' = [thr EXCEPT ![t].pc = "locked", ![t].exp = r.val]
       ELSE UNCHANGED <<lock, thr, serial>>
    /\ UNCHANGED <<mem, base, len, fault, live, last, left, phase, born, out, switch>>

\* behind the guard: the method reads the space and works out what to write
Enter(t) ==
    /\ fault = "none"
    /\ thr[t].pc = "locked"
    /\ thr' = [thr EXCEPT ![t].pc = "running",
                          ![t].pend = CallResult(Machine, thr[t].req)]
    /\ UNCHANGED <<mem, base, len, fault, live, last, left, phase, lock, serial, born, out, switch>>

\* the method writes the space and returns; the guard is dropped.  A method
\* whose walk over the free list does not end stays behind the guard.
Leave(t) ==
    /\ fault = "none"
    /\ thr[t].pc = "running"
    /\ thr[t].pend.s.fault # "hang"
    /\ \E q \in {thr[t].req} : \E r \in {thr[t].pend} :
           /\ RecordAdds(r.s, q.ptr)
           /\ mem' = r.s.mem
           /\ len' = r.s.len
           /\ base' = r.s.base
           /\ fault' = r.s.fault
           /\ live' = IF r.s.fault = "none" THEN LiveAfter(live, q, r.val) ELSE live
           /\ last' = [op |-> q.op, ptr |-> q.ptr, size |-> q.size, align |-> q.align,
                       new_size |-> q.new_size, ret |-> r.val, grew |-> r.grew,
                       moved |-> r.moved]
           /\ thr' = [thr EXCEPT ![t] = [Idle EXCEPT !.exp = thr[t].exp, !.ret = r.val,
                                                     !.done = TRUE]]
    /\ lock' = FALSE
    /\ phase' = "mixed"
    /\ UNCHANGED <<left, serial, out, switch>>

NextThreads ==
    \/ \E t \in Threads, size \in ThreadSizes, align \in Aligns, remap_ok \in BOOLEAN :
           CallAlloc(t, size, align, remap_ok)
    \/ \E t \in Threads, i \in 1..MaxLive : CallDealloc(t, i)
    \/ \E t \in Threads, i \in 1..MaxLive, new_size \in ThreadSizes, remap_ok \in BOOLEAN :
           CallRealloc(t, i, new_size, remap_ok)
    \/ \E t \in Threads : TryLock(t)
    \/ \E t \in Threads : Enter(t)
    \/ \E t \in Threads : Leave(t)

SpecThreads == InitThreads /\ [][NextThreads]_vars

\* the calls of SpecDeep at align 1 under a scheduler that lets every thread
\* that can take a step take it in the end: the first thread makes any of
\* the calls, every other thread allocates the smallest size
FairSizes == {8, 40}

FairNewSizes == {72}

InitFair == AllocatorNew(InitLen) /\ left = MaxFairOps

NextFair ==
    \/ \E size \in FairSizes : CallAlloc(1, size, 1, TRUE)
    \/ \E t \in Threads \ {1} : CallAlloc(t, 8, 1, TRUE)
    \/ \E i \in 1..MaxLive : CallDealloc(1, i)
    \/ \E i \in 1..MaxLive, new_size \in FairNewSizes : CallRealloc(1, i, new_size, TRUE)
    \/ \E t \in Threads : TryLock(t)
    \/ \E t \in Threads : Enter(t)
    \/ \E t \in Threads : Leave(t)

\* TryLock(t) changes the state exactly when the lock word reads false
CanTryLock(t) == fault = "none" /\ thr[t].pc = "acquire" /\ TryLockSucceeds(lock)

CanEnter(t) == fault = "none" /\ thr[t].pc = "locked"

\* every thread is scheduled again and again: weak fairness of each of its
\* steps.  A step of TryLock(t) or of Enter(t) ends what enables it, so weak
\* fairness of the two is that they are not enabled for ever.
FairSteps ==
    \A t \in Threads :
        /\ []<>(~CanTryLock(t))
        /\ []<>(~CanEnter(t))
        /\ WF_vars(Leave(t))

SpecFair == InitFair /\ [][NextFair]_vars /\ FairSteps

(******************************* switchable ********************************)
\* Switchable<Allocator<Mmap>>: alloc goes by the enable flag, dealloc and
\* realloc by enable_ptr.  One thread calls alloc, dealloc and realloc, and
\* set_enable is called from elsewhere at any moment, also between the
\* branch of a method and the call it leads to.  The System allocator hands
\* out blocks at SysPtrs, addresses clear of every range the space can take.

\* the layouts and the new sizes the caller asks for
SwitchLayouts == {<<40, 1>>, <<8, 16>>}

SwitchNewSizes == {72}

SysPtrs == {8 * NextPowerOfTwo(MaxLen), 8 * NextPowerOfTwo(MaxLen) + 64}

FreeSys == SysPtrs \ {switch.sys[j].ptr : j \in 1..Len(switch.sys)}

\* the blocks handed out and the calls under way
Blocks == Len(live) + Len(switch.sys) + Cardinality({u \in Threads : thr[u].pc # "idle"})

\* EnablePtr::enable_ptr on space s: as_mut_ptr_range().contains(&ptr)
EnablePtr(s, ptr) == s.base <= ptr /\ ptr < s.base + s.len

\* Switchable::enable_alloc
EnableAlloc(panicking) == switch.enable /\ ~panicking

InitSwitch == AllocatorNew(InitLen) /\ left = MaxSwitchOps

\* Switchable::set_enable: one store
SetEnable(enable) ==
    /\ fault = "none"
    /\ enable # switch.enable
    /\ switch' = [switch EXCEPT !.enable = enable]
    /\ UNCHANGED <<mem, base, len, fault, live, last, left, phase, lock, thr, serial, born, out>>

\* System.alloc: a block at an address the System allocator has free
SystemAlloc(t, size, align) ==
    /\ fault = "none"
    /\ left > 0
    /\ thr[t].pc = "idle"
    /\ \E p \in FreeSys :
           /\ switch' = [switch EXCEPT !.sys = Append(@, [ptr |-> p, size |-> size,
                                                          align |-> align])]
           /\ thr' = [thr EXCEPT ![t] = [Idle EXCEPT !.ret = p, !.done = TRUE]]
    /\ left' = left - 1
    /\ UNCHANGED <<mem, base, len, fault, live, last, phase, lock, serial, born, out>>

\* Switchable::alloc: the flag is read, then the call is made
SwitchAlloc(t, size, align, remap_ok, panicking) ==
    /\ Blocks < MaxLive
    /\ IF EnableAlloc(panicking) THEN CallAlloc(t, size, align, remap_ok)
       ELSE SystemAlloc(t, size, align)

\* the blocks a caller holds that came from one of the two allocators
Held(from) == IF from = "alloc" THEN live ELSE switch.sys

\* thread t calls dealloc or realloc of the Switchable with arguments q on
\* block i of those it holds from one allocator
IssueCheck(t, q, from, i) ==
    /\ fault = "none"
    /\ left > 0
    /\ thr[t].pc = "idle"
    /\ thr' = [thr EXCEPT ![t] = [Idle EXCEPT !.pc = "check", !.req = q]]
    /\ live' = IF from = "alloc" THEN RemoveAt(live, i) ELSE live
    /\ switch' = [switch EXCEPT !.from[t] = from,
                                !.sys = IF from = "alloc" THEN @ ELSE RemoveAt(@, i)]
    /\ left' = left - 1
    /\ UNCHANGED <<mem, base, len, fault, last, phase, lock, serial, born, out>>

SwitchDealloc(t, from, i) ==
    /\ i \in 1..Len(Held(from))
    /\ IssueCheck(t, [NoCall EXCEPT !.op = "dealloc", !.ptr = Held(from)[i].ptr,
                                    !.size = Held(from)[i].size,
                                    !.align = Held(from)[i].align], from, i)

SwitchRealloc(t, from, i, new_size, remap_ok) ==
    /\ i \in 1..Len(Held(from))
    /\ IssueCheck(t, [NoCall EXCEPT !.op = "realloc", !.ptr = Held(from)[i].ptr,
                                    !.size = Held(from)[i].size,
                                    !.align = Held(from)[i].align,
                                    !.new_size = new_size, !.remap_ok = remap_ok], from, i)

\* System.dealloc and System.realloc of call q; a pointer the System
\* allocator did not hand out is undefined behaviour
SystemCall(t, q) ==
    IF switch.from[t] # "System"
    THEN /\ fault' = "ub"
         /\ thr' = [thr EXCEPT ![t] = Idle]
         /\ switch' = switch
    ELSE /\ fault' = fault
         /\ IF q.op = "dealloc"
            THEN /\ thr' = [thr EXCEPT ![t] = [Idle EXCEPT !.done = TRUE]]
                 /\ switch' = switch
            ELSE \E p \in {q.ptr} \cup FreeSys :
                     /\ thr' = [thr EXCEPT ![t] = [Idle EXCEPT !.ret = p, !.done = TRUE]]
                     /\ switch' = [switch EXCEPT
                                      !.sys = Append(@, [ptr |-> p, size |-> q.new_size,
                                                         align |-> q.align])]

\* the branch of dealloc and realloc: enable_ptr takes the guard, tests the
\* range and drops the guard; a pointer inside goes on to the wrapped
\* allocator's method, any other to the System allocator
Forward(t) ==
    /\ fault = "none"
    /\ thr[t].pc = "check"
    /\ TryLockSucceeds(lock)
    /\ IF EnablePtr(Machine, thr[t].req.ptr)
       THEN /\ thr' = [thr EXCEPT ![t].pc = "acquire"]
            /\ UNCHANGED <<fault, switch>>
       ELSE SystemCall(t, thr[t].req)
    /\ UNCHANGED <<mem, base, len, live, last, left, phase, lock, serial, born, out>>

\* the wrapped allocator's method behind the guard, from acquire_space to the
\* drop of the guard: the guard keeps every other call on the space out
WrappedCall(t) ==
    /\ fault = "none"
    /\ thr[t].pc = "acquire"
    /\ TryLockSucceeds(lock)
    /\ \E q \in {thr[t].req} : \E r \in {CallResult(Machine, q)} :
           /\ RecordAdds(r.s, q.ptr)
           /\ mem' = r.s.mem
           /\ len' = r.s.len
           /\ base' = r.s.base
           /\ fault' = r.s.fault
           /\ serial' = r.s
           /\ live' = IF r.s.fault = "none" THEN LiveAfter(live, q, r.val) ELSE live
           /\ last' = [op |-> q.op, ptr |-> q.ptr, size |-> q.size, align |-> q.align,
                       new_size |-> q.new_size, ret |-> r.val, grew |-> r.grew,
                       moved |-> r.moved]
           /\ thr' = [thr EXCEPT ![t] = [Idle EXCEPT !.exp = r.val, !.ret = r.val,
                                                     !.done = TRUE]]
    /\ phase' = "mixed"
    /\ UNCHANGED <<left, lock, out, switch>>

NextSwitch ==
    \/ \E enable \in BOOLEAN : SetEnable(enable)
    \/ \E t \in {1}, l \in SwitchLayouts, panicking \in BOOLEAN :
           SwitchAlloc(t, l[1], l[2], TRUE, panicking)
    \/ \E t \in {1}, from \in {"alloc", "System"}, i \in 1..MaxLive :
           SwitchDealloc(t, from, i)
    \/ \E t \in {1}, from \in {"alloc", "System"}, i \in 1..MaxLive,
          new_size \in SwitchNewSizes :
           SwitchRealloc(t, from, i, new_size, TRUE)
    \/ \E t \in Threads : Forward(t)
    \/ \E t \in Threads : WrappedCall(t)

SpecSwitch == InitSwitch /\ [][NextSwitch]_vars

(******************************** functions ********************************)
\* a space of length zero bytes that no allocator has been built on
SpaceOnly(length) ==
    /\ base \in Bases
    /\ len = length
    /\ mem = ZeroMachine(base, length).mem
    /\ fault = "none"
    /\ live = <<>>
    /\ last = [NoOp EXCEPT !.op = "none"]
    /\ phase = "build"
    /\ lock = FALSE
    /\ thr = [t \in Threads |-> Idle]
    /\ serial = Machine
    /\ born = <<>>
    /\ switch = NoSwitch

\* the sizes at which bin_index_of_size changes branch or class: the first of
\* each quarter of each power of two from 2^8 to 2^23
BinEdges == {Pow2(m + 8) + q * Pow2(m + 6) : m \in 0..15, q \in 0..3}

BinSizes ==
    {0, 1, 7, 8, 23, 24, 25, 31, 32, 33, 247, 248, 257,
     Pow2(24) - 1, Pow2(24), Pow2(24) + 1, MaxUsize}
        \cup BinEdges \cup {e - 1 : e \in BinEdges}

InitBins ==
    /\ SpaceOnly(0)
    /\ left = 1
    /\ \E s \in BinSizes, s2 \in BinSizes :
           out = [fn |-> "bin_index_of_size", args |-> <<s, s2>>, val |-> <<>>]

\* Overlay::bin_index_of_size applied to each of the two sizes
ApplyBinIndexOfSize ==
    /\ out.fn = "bin_index_of_size"
    /\ out.val = <<>>
    /\ left > 0
    /\ out' = [out EXCEPT !.val = <<BinIndexOfSize(out.args[1]),
                                    BinIndexOfSize(out.args[2])>>]
    /\ left' = left - 1
    /\ UNCHANGED <<mem, base, len, fault, live, last, phase, lock, thr, serial, born, switch>>

NextBins == ApplyBinIndexOfSize

SpecBins == InitBins /\ [][NextBins]_vars

\* lengths a space can have when grow is called on it, and the sizes asked for
SpaceLens == {0, 1, 2, 8, 24, InitLen, MaxLen}

MinBytes ==
    {0, 1, 2, 8, 9, 48, InitLen - 1, InitLen, InitLen + 1, MaxLen, MaxLen + 1,
     (MaxUsize + 1) \div 2 - 1, (MaxUsize + 1) \div 2, MaxUsize - 1, MaxUsize}

\* a space of one provider holding length bytes, each word of it v
InitSpace ==
    /\ left = MaxSpaceOps
    /\ \E length \in SpaceLens, v \in UserVals, provider \in {"mmap", "fixed"} :
           /\ base \in Bases
           /\ len = length
           /\ mem = [w \in 0..(MaxWords - 1) |-> IF 8 * w < length THEN v ELSE 0]
           /\ out = [fn |-> "new", args |-> <<provider>>, val |-> <<>>]
    /\ fault = "none"
    /\ live = <<>>
    /\ last = [NoOp EXCEPT !.op = "none"]
    /\ phase = "build"
    /\ lock = FALSE
    /\ thr = [t \in Threads |-> Idle]
    /\ serial = ZeroMachine(0, 0)
    /\ born = <<>>
    /\ switch = NoSwitch

\* Space::grow(min_bytes) on the space; remap_ok is the answer of mremap
GrowCall(min_bytes, remap_ok) ==
    /\ left > 0
    /\ fault = "none"
    /\ out.fn \in {"new", "grow"}
    /\ \E g \in {Grow(Machine, out.args[1], min_bytes, remap_ok)} :
           /\ mem' = g.s.mem
           /\ base' = g.s.base
           /\ len' = g.s.len
           /\ fault' = g.s.fault
           /\ out' = [fn |-> "grow", args |-> <<out.args[1], min_bytes>>,
                      val |-> <<g.ok>>]
    /\ left' = left - 1
    /\ UNCHANGED <<live, last, phase, lock, thr, serial, born, switch>>

NextSpace == \E min_bytes \in MinBytes, remap_ok \in BOOLEAN : GrowCall(min_bytes, remap_ok)

SpecSpace == InitSpace /\ [][NextSpace]_vars

(********************************** fuzz ***********************************)
\* size_of::<usize>()
UsizeBytes == 8

AllocMethod(size, align) ==
    [kind |-> "Alloc", size |-> size, align |-> align, index |-> 0, new_size |-> 0]

DeallocMethod(index) ==
    [kind |-> "Dealloc", size |-> 0, align |-> 0, index |-> index, new_size |-> 0]

ReallocMethod(index, new_size) ==
    [kind |-> "Realloc", size |-> 0, align |-> 0, index |-> index, new_size |-> new_size]

RECURSIVE ToLeBytes(_, _)
\* usize::to_le_bytes, n bytes of it
ToLeBytes(v, n) == IF n = 0 THEN <<>> ELSE <<v % 256>> \o ToLeBytes(v \div 256, n - 1)

RECURSIVE FromLeBytes(_)
\* usize::from_le_bytes
FromLeBytes(b) == IF b = <<>> THEN 0 ELSE b[1] + 256 * FromLeBytes(Tail(b))

RECURSIVE TrailingZeros(_)
\* usize::trailing_zeros of n > 0
TrailingZeros(n) == IF n % 2 = 1 THEN 0 ELSE 1 + TrailingZeros(n \div 2)

\* what to_bytes writes for one method
MethodBytes(method) ==
    IF method.kind = "Alloc"
    THEN <<0>> \o ToLeBytes(method.size, UsizeBytes) \o <<TrailingZeros(method.align)>>
    ELSE IF method.kind = "Dealloc"
    THEN <<1>> \o ToLeBytes(method.index, UsizeBytes)
    ELSE <<2>> \o ToLeBytes(method.index, UsizeBytes)
              \o ToLeBytes(method.new_size, UsizeBytes)

RECURSIVE ToBytes(_)
\* Method::to_bytes
ToBytes(methods) ==
    IF methods = <<>> THEN <<>>
    ELSE MethodBytes(Head(methods)) \o ToBytes(Tail(methods))

\* the bytes one turn of the reading closure takes for a kind byte k; the
\* turn fails, and the loop ends, when fewer are left
BytesOfKind(k) ==
    IF k % 3 = 0 THEN 1 + UsizeBytes + 1
    ELSE IF k % 3 = 1 THEN 1 + UsizeBytes
    ELSE 1 + 2 * UsizeBytes

\* the method one turn of the closure pushes from the bytes b of that turn
MethodOfBytes(b) ==
    IF b[1] % 3 = 0
    THEN AllocMethod(FromLeBytes(SubSeq(b, 2, 1 + UsizeBytes)),
                     Pow2(b[2 + UsizeBytes] % 11))
    ELSE IF b[1] % 3 = 1
    THEN DeallocMethod(FromLeBytes(SubSeq(b, 2, 1 + UsizeBytes)))
    ELSE ReallocMethod(FromLeBytes(SubSeq(b, 2, 1 + UsizeBytes)),
                       FromLeBytes(SubSeq(b, 2 + UsizeBytes, 1 + 2 * UsizeBytes)))

RECURSIVE FromBytes(_)
\* Method::from_bytes
FromBytes(bytes) ==
    IF bytes = <<>> THEN <<>>
    ELSE IF Len(bytes) < BytesOfKind(bytes[1]) THEN <<>>
    ELSE <<MethodOfBytes(SubSeq(bytes, 1, BytesOfKind(bytes[1])))>>
             \o FromBytes(SubSeq(bytes, BytesOfKind(bytes[1]) + 1, Len(bytes)))

\* the methods a list is drawn from: the alignments are the powers of two
\* at both ends of 1..2048
FuzzMethods ==
    {AllocMethod(size, align) : size \in {0, 1, 300}, align \in {1, 2, 1024, 2048}}
        \cup {DeallocMethod(index) : index \in {0, 1}}
        \cup {ReallocMethod(index, new_size) : index \in {0, 1}, new_size \in {2, 65536}}

FuzzLists == UNION {[1..n -> FuzzMethods] : n \in 0..MaxMethods}

InitFuzz ==
    /\ SpaceOnly(0)
    /\ left = 2
    /\ \E methods \in FuzzLists :
           out = [fn |-> "methods", args |-> <<methods>>, val |-> <<>>]

\* Method::to_bytes(&methods)
ApplyToBytes ==
    /\ out.fn = "methods"
    /\ out' = [fn |-> "to_bytes", args |-> out.args, val |-> <<ToBytes(out.args[1])>>]
    /\ left' = left - 1
    /\ UNCHANGED <<mem, base, len, fault, live, last, phase, lock, thr, serial, born, switch>>

\* Method::from_bytes on the bytes to_bytes gave; args keeps the methods
\* they were written from
ApplyFromBytes ==
    /\ out.fn = "to_bytes"
    /\ out' = [fn |-> "from_bytes", args |-> <<out.args[1], out.val[1]>>,
               val |-> <<FromBytes(out.val[1])>>]
    /\ left' = left - 1
    /\ UNCHANGED <<mem, base, len, fault, live, last, phase, lock, thr, serial, born, switch>>

NextFuzz == ApplyToBytes \/ ApplyFromBytes

SpecFuzz == InitFuzz /\ [][NextFuzz]_vars

(******************************* properties ********************************)
\* A call that panics or leaves the space never returns to its caller; the
\* properties speak of the states and the calls of runs that have not faulted.
NoFault == fault = "none"

\* the chunks of the current state, lowest first; the last one is the top chunk
Chunks == AllChunks(Machine)

\* the chunk from_user_data recovers for the pointer the last call was given
\* (dealloc, realloc) or has returned (alloc)
LastChunk(s) == FromUserData(s, IF last.op = "alloc" THEN last.ret ELSE last.ptr, last.align)

\* the 8-byte word at address a lies in the user range of live allocation i
InLive(i, a) == a + 8 > live[i].ptr /\ a < live[i].ptr + live[i].size

Owned(a) == \E i \in 1..Len(live) : InLive(i, a)

\* the words the allocator keeps in chunk c: its meta word, and for a free
\* chunk its prev, next and footer words
AllocatorWords(c) ==
    IF GetInUse(Machine, c) THEN {c}
    ELSE {c, c + 8, c + 16, c + GetSize(Machine, c) - 8}

\* C1: between public operations the user ranges of the live allocations are
\* pairwise disjoint, lie above the bin table, and hold no chunk's meta word
\* and no free chunk's prev, next or footer word.
C1_LiveRangesDisjoint ==
    NoFault =>
        /\ \A i, j \in 1..Len(live) :
               i < j => live[i].ptr + live[i].size <= live[j].ptr
        /\ \A i \in 1..Len(live) : live[i].ptr >= base + 8 * BINS_LEN
        /\ \A k \in 1..Len(Chunks) : \A a \in AllocatorWords(Chunks[k]) : ~Owned(a)

\* C2: every non-null pointer alloc returns for a layout of size > 0 is a
\* multiple of the layout's alignment.
C2_AllocAligned ==
    (NoFault /\ last.op = "alloc" /\ last.ret # 0) => last.ret % last.align = 0

\* alloc has returned a 16-aligned pointer from a chunk whose first user byte
\* is not 16-aligned
C2_Witness ==
    /\ NoFault
    /\ last.op = "alloc"
    /\ last.align = 16
    /\ last.ret # 0
    /\ FromUserData(Machine, last.ret, last.align) + 8 # last.ret

\* C3: every non-null pointer alloc returns lies in the space, and its whole
\* user range lies in the user bytes of the chunk marked in use for it, which
\* is above the bin table and below the top chunk.
C3_AllocInsideChunk ==
    (NoFault /\ last.op = "alloc" /\ last.ret # 0) =>
        /\ last.ret >= base
        /\ last.ret + last.size <= base + len
        /\ GetInUse(Machine, LastChunk(Machine))
        /\ LastChunk(Machine) >= base + 8 * BINS_LEN
        /\ LastChunk(Machine) + 8 <= last.ret
        /\ last.ret + last.size <= LastChunk(Machine) + GetSize(Machine, LastChunk(Machine))
        /\ LastChunk(Machine) + GetSize(Machine, LastChunk(Machine)) <= base + len - MIN_SIZE

\* alloc has returned a pointer after the space has grown
C3_Witness == NoFault /\ last.op = "alloc" /\ last.ret # 0 /\ last.grew

\* the chunk sequence right after init: one free chunk from the end of the bin
\* table to the top chunk, then the top chunk
InitLayout ==
    /\ Chunks = <<base + 8 * BINS_LEN, base + len - MIN_SIZE>>
    /\ ~GetInUse(Machine, Chunks[1])
    /\ GetSize(Machine, Chunks[1]) = len - 8 * BINS_LEN - MIN_SIZE
    /\ ~GetInUse(Machine, Chunks[2])
    /\ GetSize(Machine, Chunks[2]) = MIN_SIZE

\* C4: on a fixed space, when a run of successful alloc and realloc calls is
\* followed by the dealloc of every outstanding allocation, the chunk
\* sequence is the one right after init.
C4_RoundTrip ==
    (NoFault /\ phase = "drain" /\ live = <<>>) => InitLayout

\* C9: between public operations the first chunk has LOWER_IN_USE = 1 and
\* every other chunk, the top chunk included, has LOWER_IN_USE equal to the
\* IN_USE flag of the chunk right below it.
C9_LowerInUseMatches ==
    NoFault =>
        /\ GetLowerInUse(Machine, Chunks[1])
        /\ \A k \in 2..Len(Chunks) :
               GetLowerInUse(Machine, Chunks[k]) = GetInUse(Machine, Chunks[k - 1])

\* C10: between public operations no two adjacent chunks are both free, a
\* pair with the top chunk not counted.
C10_NoAdjacentFree ==
    NoFault =>
        \A k \in 1..(Len(Chunks) - 2) :
            GetInUse(Machine, Chunks[k]) \/ GetInUse(Machine, Chunks[k + 1])

\* the words of the first size bytes at p in machine s
Bytes(s, p, size) == [k \in 0..(size \div 8 - 1) |-> Rd(s, p + 8 * k)]

\* C5: when realloc returns a non-null pointer q, the first min(old size,
\* new size) bytes at q are the bytes that were at ptr before the call,
\* whether the allocation stayed in place or moved.
C5_ReallocKeepsBytes ==
    [][(last'.op = "realloc" /\ last'.ret # 0 /\ fault' = "none") =>
           Bytes(Machine', last'.ret, Min(last'.size, last'.new_size))
               = Bytes(Machine, last'.ptr, Min(last'.size, last'.new_size))]_vars

\* C6: when realloc returns null the caller still owns the original
\* allocation: its chunk is in use and in no bin or free list, and its bytes
\* are unchanged.
C6_ReallocNullKeepsOriginal ==
    [][(last'.op = "realloc" /\ last'.ret = 0 /\ fault' = "none") =>
           /\ live' = live
           /\ Bytes(Machine', last'.ptr, last'.size) = Bytes(Machine, last'.ptr, last'.size)
           /\ GetInUse(Machine', LastChunk(Machine)')
           /\ \A i \in 0..(BINS_LEN - 1) : GetBinChunk(Machine', i) # LastChunk(Machine)'
           /\ LastChunk(Machine)' \notin Range(FreeChunks(Machine'))]_vars

\* C7: when alloc returns null because no chunk fits and grow returned
\* false, the space is as it was before the call: every chunk, bin slot and
\* link, and every live allocation.
C7_AllocNullKeepsState ==
    [][(last'.op = "alloc" /\ last'.ret = 0 /\ ~last'.grew /\ fault' = "none") =>
           /\ mem' = mem
           /\ len' = len
           /\ base' = base
           /\ live' = live]_vars

\* alloc has returned null while allocations are live
C7_Witness ==
    /\ NoFault
    /\ last.op = "alloc"
    /\ last.ret = 0
    /\ ~last.grew
    /\ Len(live) > 0

\* some free chunk below the top chunk can hold the layout
FreeChunkFits(size, align) ==
    \E k \in 1..(Len(Chunks) - 1) :
        /\ ~GetInUse(Machine, Chunks[k])
        /\ GetUserData(Machine, Chunks[k], size, align) # 0

\* C8: when some free chunk other than the top chunk can hold the layout,
\* alloc does not return null and does not take the grow path.
C8_AllocFindsFit ==
    [][(last'.op = "alloc" /\ FreeChunkFits(last'.size, last'.align)) =>
           /\ ~last'.grew
           /\ fault' = "none" => last'.ret # 0]_vars

\* the address the top chunk has in a space of the current length
TopAddr == base + len - MIN_SIZE

\* C11: between public operations every free chunk, the top chunk included,
\* has at offset size - 8 a footer word equal to its size.
C11_FreeFooter ==
    NoFault =>
        \A k \in 1..Len(Chunks) :
            ~GetInUse(Machine, Chunks[k]) =>
                Rd(Machine, Chunks[k] + GetSize(Machine, Chunks[k]) - 8)
                    = GetSize(Machine, Chunks[k])

RECURSIVE TilesFrom(_, _, _)
\* stepping from chunk c by the chunks' sizes reaches the top chunk's address
\* exactly, over sizes that are multiples of 8 and at least MIN_SIZE
TilesFrom(s, c, fuel) ==
    IF c = s.base + s.len - MIN_SIZE THEN GetSize(s, c) = MIN_SIZE
    ELSE IF fuel = 0 \/ c > s.base + s.len - MIN_SIZE THEN FALSE
    ELSE IF GetSize(s, c) < MIN_SIZE \/ GetSize(s, c) % 8 # 0 THEN FALSE
    ELSE TilesFrom(s, GetHigherChunk(s, c), fuel - 1)

\* C12: between public operations the chunks tile the chunk region: stepping
\* from offset 8*96 by the chunks' sizes reaches exactly the top chunk at
\* len - 32, every size is a multiple of 8 and at least 32, and the sizes
\* sum to len - 8*96.
C12_ChunksTile == NoFault => TilesFrom(Machine, StartChunk(Machine), Fuel)

\* C13: between public operations the last chunk is the top chunk at
\* len - 32, free and of size exactly 32, and no pointer alloc or realloc
\* returns lies in it.
C13_TopChunk ==
    NoFault =>
        /\ Chunks[Len(Chunks)] = TopAddr
        /\ ~GetInUse(Machine, TopAddr)
        /\ GetSize(Machine, TopAddr) = MIN_SIZE
        /\ (last.op \in {"alloc", "realloc"} /\ last.ret # 0) =>
               (last.ret + last.size <= TopAddr \/ last.ret >= base + len)
        /\ \A i \in 1..Len(live) : live[i].ptr + live[i].size <= TopAddr

\* the chunks a walk over next links reaches from some bin slot
Binned(s) ==
    UNION {Range(IterFreeFrom(s, GetBinChunk(s, i), Fuel)) :
               i \in BinIndexOfSize(MIN_USER_SIZE)..(BINS_LEN - 1)}

\* the chunk of the allocation the realloc of this step is given, as the
\* space stands before the call
ReallocChunkBefore == FromUserData(Machine, last'.ptr, last'.align)

\* C15: when the chunk that holds the allocation can already hold
\* (new_size, align), and whenever new_size is not larger than the old size,
\* realloc returns the same pointer and changes no word of the space.
C15_ReallocFitsInPlace ==
    [][(/\ last'.op = "realloc"
        /\ \/ GetUserData(Machine, ReallocChunkBefore, last'.new_size, last'.align) # 0
           \/ last'.new_size <= last'.size) =>
           /\ last'.ret = last'.ptr
           /\ fault' = "none"
           /\ mem' = mem /\ len' = len /\ base' = base]_vars

\* the realloc of this step finds its chunk too small, the higher neighbour
\* free and not the top chunk, and the two together large enough
GrowsInPlace ==
    /\ last'.op = "realloc"
    /\ GetUserData(Machine, ReallocChunkBefore, last'.new_size, last'.align) = 0
    /\ ~GetInUse(Machine, GetHigherChunk(Machine, ReallocChunkBefore))
    /\ ~IsTop(Machine, GetHigherChunk(Machine, ReallocChunkBefore))
    /\ last'.new_size + AlignOffset(ReallocChunkBefore + 8, last'.align) + META_SIZE
           <= GetSize(Machine, ReallocChunkBefore)
                  + GetSize(Machine, GetHigherChunk(Machine, ReallocChunkBefore))

\* the space after the step
MachineAfter == [mem |-> mem', base |-> base', len |-> len', fault |-> fault']

\* C16: when the chunk's higher neighbour is free and not the top chunk and
\* the two together can hold (new_size, align), realloc returns the original
\* pointer, the neighbour is in no bin afterwards, and a tail of at least 32
\* bytes is a free chunk in a bin.
C16_ReallocGrowsInPlace ==
    [][GrowsInPlace =>
           /\ fault' = "none"
           /\ last'.ret = last'.ptr
           /\ GetHigherChunk(Machine, ReallocChunkBefore) \notin Binned(MachineAfter)
           /\ (GetHigherChunk(Machine, GetHigherChunk(Machine, ReallocChunkBefore))
                   - GetHigherChunk(MachineAfter, ReallocChunkBefore) >= MIN_SIZE) =>
                  /\ ~GetInUse(MachineAfter, GetHigherChunk(MachineAfter, ReallocChunkBefore))
                  /\ GetHigherChunk(MachineAfter, ReallocChunkBefore) \in Binned(MachineAfter)]_vars

\* C17: alloc of a layout of size 0 returns the non-null sentinel and
\* leaves the space as it was: no word is written and grow is not called.
C17_AllocZero ==
    [][(last'.op = "alloc" /\ last'.size = 0) =>
           /\ last'.ret = Dangling /\ last'.ret # 0
           /\ ~last'.grew
           /\ fault' = "none"
           /\ mem' = mem /\ len' = len /\ base' = base]_vars

\* an alloc of size 0 has returned while two allocations of non-zero size
\* were outstanding
C17_Witness ==
    /\ NoFault
    /\ last.op = "alloc" /\ last.size = 0 /\ last.align = 16 /\ last.ret = Dangling
    /\ Len(live) = 3
    /\ \E i, j \in 1..3 : i # j /\ live[i].size # 0 /\ live[j].size # 0

\* C18: dealloc of the zero-size sentinel is a no-op: the space is unchanged
\* and nothing outside the space is read as a chunk header.
C18_DeallocSentinelNoOp ==
    [][(last'.op = "dealloc" /\ last'.size = 0) =>
           /\ fault' = "none"
           /\ mem' = mem /\ len' = len /\ base' = base]_vars

\* C19: when no free chunk fits and grow succeeds, the second try does not
\* fail: the call returns a non-null pointer, aligned, inside the grown space.
C19_SecondTrySucceeds ==
    [][(last'.op \in {"alloc", "realloc"} /\ last'.grew) =>
           /\ fault' = "none"
           /\ last'.ret # 0
           /\ last'.ret % last'.align = 0
           /\ last'.ret >= base' + 8 * BINS_LEN + META_SIZE
           /\ last'.ret + (IF last'.op = "alloc" THEN last'.size ELSE last'.new_size)
                  <= base' + len']_vars

\* C20: right after Allocator::new the chunk region holds exactly two
\* chunks, both free: the first from 8*96 to len-32 with LOWER_IN_USE set and
\* the top chunk of size 32 at len-32; the free list from the smallest
\* non-empty bin is these two in that order, and bin 95 holds the top chunk.
C20_AfterNew ==
    last.op = "init" =>
        /\ NoFault
        /\ InitLayout
        /\ GetLowerInUse(Machine, StartChunk(Machine))
        /\ FreeChunks(Machine) = <<StartChunk(Machine), TopAddr>>
        /\ GetBinChunk(Machine, BINS_LEN - 1) = TopAddr

\* a space of the shortest length has just been constructed
C20_Witness == last.op = "init" /\ len = MinLen /\ NoFault

\* the threads inside the operation on the space
InSpaceCall == {t \in Threads : thr[t].pc \in {"locked", "running"}}

AllocChunkAfter == FromUserData(MachineAfter, last'.ret, last'.align)

\* the remainder chunk the split of this step has written, 0 when this step
\* has split no chunk: the tail of a realloc that grew in place, or what an
\* alloc has left of the free chunk it took
SplitRemain ==
    IF GrowsInPlace /\ last'.ret = last'.ptr
       /\ GetHigherChunk(Machine, GetHigherChunk(Machine, ReallocChunkBefore))
              - GetHigherChunk(MachineAfter, ReallocChunkBefore) >= MIN_SIZE
    THEN GetHigherChunk(MachineAfter, ReallocChunkBefore)
    ELSE IF last'.op = "alloc" /\ last'.size # 0 /\ last'.ret # 0 /\ ~last'.grew
            /\ GetSize(Machine, AllocChunkAfter) - GetSize(MachineAfter, AllocChunkAfter)
                   >= MIN_SIZE
    THEN GetHigherChunk(MachineAfter, AllocChunkAfter)
    ELSE 0

\* C21: every write of a chunk's IN_USE flag or size sets LOWER_IN_USE of
\* the chunk at data + size to the new IN_USE value, also for a remainder
\* chunk that split has just created over words never initialised as a
\* header: after a call that has split a chunk, the chunk above the
\* remainder has LOWER_IN_USE equal to the remainder's IN_USE.
C21_WriteSetsHigherFlag ==
    [][(fault' = "none" /\ SplitRemain # 0) =>
           GetLowerInUse(MachineAfter, GetHigherChunk(MachineAfter, SplitRemain))
               = GetInUse(MachineAfter, SplitRemain)]_vars

\* the indices of the bin slots: init clears the table from the class of the
\* smallest chunk on
BinIndices == BinIndexOfSize(MIN_USER_SIZE)..(BINS_LEN - 1)

\* C22: between public operations every non-null bin slot i points to the
\* start of a chunk that is free and of size class i; the top chunk is
\* pointed to by bin 95 and by no other slot, and bin 95 is never null.
C22_BinSlots ==
    NoFault =>
        /\ \A i \in BinIndices :
               GetBinChunk(Machine, i) # 0 =>
                   /\ GetBinChunk(Machine, i) \in Range(Chunks)
                   /\ ~GetInUse(Machine, GetBinChunk(Machine, i))
                   /\ IF GetBinChunk(Machine, i) = TopAddr
                      THEN i = BINS_LEN - 1
                      ELSE ChunkBinIndex(Machine, GetBinChunk(Machine, i)) = i
        /\ GetBinChunk(Machine, BINS_LEN - 1) = TopAddr

\* the free list of the current state, as iter_free_chunk yields it
FreeList == FreeChunks(Machine)

\* the chunks the search of alloc passes for a layout of size bytes: from the
\* head find_smallest gives, along the next links
SearchPath(s, size) == IterFreeFrom(s, FindSmallest(s, size), Fuel)

\* C23: between public operations every free chunk appears exactly once in
\* the free list, no in-use chunk appears in it, and every free chunk below
\* the top chunk is on the path of the search alloc makes for that chunk's
\* own user size.
C23_FreeListExact ==
    NoFault =>
        /\ \A k \in 1..Len(Chunks) :
               ~GetInUse(Machine, Chunks[k]) =>
                   Cardinality({j \in 1..Len(FreeList) : FreeList[j] = Chunks[k]}) = 1
        /\ \A j \in 1..Len(FreeList) :
               FreeList[j] \in Range(Chunks) /\ ~GetInUse(Machine, FreeList[j])
        /\ \A k \in 1..(Len(Chunks) - 1) :
               ~GetInUse(Machine, Chunks[k]) =>
                   Chunks[k] \in Range(SearchPath(Machine,
                                                  GetSize(Machine, Chunks[k]) - META_SIZE))

\* walk w visits chunks of non-decreasing size up to the top chunk, its last
\* entry, where the next links end
SortedToTop(s, w) ==
    /\ w # <<>>
    /\ w[Len(w)] = s.base + s.len - MIN_SIZE
    /\ GetNext(s, w[Len(w)]) = 0
    /\ \A j \in 1..(Len(w) - 2) : GetSize(s, w[j]) <= GetSize(s, w[j + 1])

\* C24: between public operations the next links from any bin head visit
\* chunks in non-decreasing size order up to the top chunk, which is the
\* last entry, with next = null, and the tail of bin 95's list.
C24_BinListsSorted ==
    NoFault =>
        \A i \in BinIndices :
            GetBinChunk(Machine, i) # 0 =>
                SortedToTop(Machine, IterFreeFrom(Machine, GetBinChunk(Machine, i), Fuel))

\* the slot rule the claim gives for remove(c) on space s: next stays in bin
\* index exactly when add would file it there
SlotAfterRemove(s, c, index) ==
    IF GetBinChunk(s, index) # c THEN GetBinChunk(s, index)
    ELSE IF ChunkBinIndex(s, GetNext(s, c)) = index
            /\ GetNext(s, c) # s.base + s.len - MIN_SIZE
    THEN GetNext(s, c)
    ELSE 0

\* remove_chunk(c) on space s leaves the links and the slots as the claim says
RemoveAsSpecified(s, c) ==
    /\ RemoveChunk(s, c).fault = "none"
    /\ GetPrev(RemoveChunk(s, c), GetNext(s, c)) = GetPrev(s, c)
    /\ GetPrev(s, c) # 0 => GetNext(RemoveChunk(s, c), GetPrev(s, c)) = GetNext(s, c)
    /\ \A i \in BinIndices :
           GetBinChunk(RemoveChunk(s, c), i)
               = IF i = ChunkBinIndex(s, c) THEN SlotAfterRemove(s, c, i)
                 ELSE GetBinChunk(s, i)

\* C25: remove(chunk), applied to any free chunk below the top chunk that
\* the free list holds, unlinks it from its prev and next; when it was the
\* head of bin i, slot i then holds chunk.next exactly when chunk.next is of
\* class i by the rule of add (class of size - 8, not the top chunk) and is
\* null otherwise; no other slot changes.
C25_RemoveChunk ==
    NoFault =>
        \A k \in 1..(Len(Chunks) - 1) :
            (~GetInUse(Machine, Chunks[k]) /\ Chunks[k] \in Range(FreeList)) =>
                RemoveAsSpecified(Machine, Chunks[k])

\* the free chunks of the current state, the top chunk included
FreeSet == {Chunks[k] : k \in {j \in 1..Len(Chunks) : ~GetInUse(Machine, Chunks[j])}}

\* C26: between public operations the free list is a consistent
\* doubly-linked chain: for every free chunk c, a non-null c.next has
\* prev = c and a non-null c.prev has next = c; the top chunk is the only
\* free chunk with next = null, and exactly one free chunk has prev = null.
C26_LinksConsistent ==
    NoFault =>
        /\ \A c \in FreeSet :
               /\ GetNext(Machine, c) # 0 => GetPrev(Machine, GetNext(Machine, c)) = c
               /\ GetPrev(Machine, c) # 0 => GetNext(Machine, GetPrev(Machine, c)) = c
               /\ GetNext(Machine, c) = 0 <=> c = TopAddr
        /\ Cardinality({c \in FreeSet : GetPrev(Machine, c) = 0}) = 1

\* the space in the middle of the alloc of this step, which takes the grow
\* path: after the new top chunk and the old one are in place, before the
\* second try
GrowMid ==
    Regrown(Grow(Machine, "mmap", len + last'.size + last'.align + META_SIZE, TRUE).s,
            OverlayAlloc(Machine, last'.size, last'.align).val, len)

\* the free chunks that end where the top chunk starts
BelowTop ==
    {Chunks[k] : k \in {j \in 1..(Len(Chunks) - 1) :
                           /\ ~GetInUse(Machine, Chunks[j])
                           /\ GetHigherChunk(Machine, Chunks[j]) = TopAddr}}

\* where the free chunk of the added bytes starts: at the old top chunk, or
\* at the chunk below it when that one is free
GrownChunk == IF BelowTop # {} THEN CHOOSE c \in BelowTop : TRUE ELSE TopAddr

\* space m has its top chunk at the end, as the tail of the free list, and
\* below it one free chunk that starts at chunk c
GrownShape(m, c) ==
    /\ m.fault = "none"
    /\ ~GetInUse(m, m.base + m.len - MIN_SIZE)
    /\ GetSize(m, m.base + m.len - MIN_SIZE) = MIN_SIZE
    /\ GetNext(m, m.base + m.len - MIN_SIZE) = 0
    /\ FreeChunks(m) # <<>>
    /\ FreeChunks(m)[Len(FreeChunks(m))] = m.base + m.len - MIN_SIZE
    /\ ~GetInUse(m, c)
    /\ GetSize(m, c) = (m.base + m.len - MIN_SIZE) - c

\* C27: when alloc takes the grow path and grow raises the length, then
\* before the second try the top chunk is at new_len - 32 with size 32 and is
\* the tail of the free list, and the bytes from the old top chunk up to the
\* new one are one free chunk of size new_len - old_len, which starts at
\* the chunk below the old top chunk when that chunk was free.
C27_GrowMakesFreeChunk ==
    [][(last'.op = "alloc" /\ last'.grew) =>
           \A m \in {GrowMid} : \A c \in {GrownChunk} : GrownShape(m, c)]_vars

\* address a is null or lies in the chunk region of space s
NullOrInRegion(s, a) == a = 0 \/ (a >= StartChunk(s) /\ a + MIN_SIZE <= s.base + s.len)

\* every bin slot and every link of a chunk of the free list of s is null or
\* an address of the space as it is now
PointersInRegion(s) ==
    /\ \A i \in BinIndices : NullOrInRegion(s, GetBinChunk(s, i))
    /\ \A j \in 1..Len(FreeChunks(s)) :
           /\ NullOrInRegion(s, GetPrev(s, FreeChunks(s)[j]))
           /\ NullOrInRegion(s, GetNext(s, FreeChunks(s)[j]))

\* C28: a grow during alloc that succeeds keeps the allocator consistent
\* also when the provider relocates the base pointer: the call touches no
\* address of the old range, afterwards every bin slot and every prev/next
\* link is an address of the new region, and the chunks tile the region up
\* to the top chunk, the tail of the free list.
C28_GrowRelocates ==
    [][(last'.op \in {"alloc", "realloc"} /\ last'.grew /\ base' # base) =>
           \A m \in {MachineAfter} :
               /\ m.fault = "none"
               /\ PointersInRegion(m)
               /\ TilesFrom(m, StartChunk(m), Fuel)
               /\ FreeChunks(m) # <<>>
               /\ FreeChunks(m)[Len(FreeChunks(m))] = m.base + m.len - MIN_SIZE]_vars

\* from_user_data on pointer p of a layout aligned to align recovers, in
\* space s, a chunk that is marked in use and whose user pointer for that
\* alignment is p: the word below p is that chunk's meta word, or a padding
\* offset with its low three bits clear that leads to it
Recovers(s, p, align) ==
    /\ GetInUse(s, FromUserData(s, p, align))
    /\ FromUserData(s, p, align) + 8 + AlignOffset(FromUserData(s, p, align) + 8, align) = p
    /\ \/ GetInUse(s, p - 8) /\ FromUserData(s, p, align) = p - 8
       \/ /\ ~GetInUse(s, p - 8)
          /\ Rd(s, p - 8) % (META_MASK + 1) = 0
          /\ FromUserData(s, p, align) = p - 8 - Rd(s, p - 8)

\* C29: for every pointer alloc or realloc has returned, from the return
\* until the allocation is freed and also after a realloc in place,
\* from_user_data recovers the chunk marked in use for it, through a meta
\* word with IN_USE set at p - 8 or through a padding offset there.
C29_FromUserDataRecovers ==
    NoFault =>
        \A i \in 1..Len(live) :
            live[i].size # 0 => Recovers(Machine, live[i].ptr, live[i].align)

\* C30: equal-sized free chunks are taken oldest first: when an alloc is
\* served by a free chunk, no other free chunk of the same size that can
\* hold the layout was added to the bins before it, whatever adds and
\* removes came before.
C30_OldestFirst ==
    [][(/\ last'.op = "alloc" /\ last'.size # 0 /\ last'.ret # 0 /\ ~last'.grew
        /\ fault' = "none"
        /\ AllocChunkAfter \in Range(born)) =>
           \A j, k \in 1..Len(born) :
               (/\ born[k] = AllocChunkAfter
                /\ GetSize(Machine, born[j]) = GetSize(Machine, born[k])
                /\ GetUserData(Machine, born[j], last'.size, last'.align) # 0) => k <= j]_vars

\* the free higher neighbour the realloc of this step coalesces with
ReallocHigher == GetFreeHigherChunk(Machine, ReallocChunkBefore)

\* the realloc of this step coalesces its chunk with the free higher
\* neighbour and the enlarged chunk still cannot hold the new layout
CoalescedNoFit ==
    /\ last'.op = "realloc"
    /\ GetUserData(Machine, ReallocChunkBefore, last'.new_size, last'.align) = 0
    /\ ReallocHigher # 0
    /\ ~IsTop(Machine, ReallocHigher)
    /\ GetSize(Machine, ReallocChunkBefore) + GetSize(Machine, ReallocHigher)
           >= last'.new_size + META_SIZE
    /\ GetUserData(MergeHigher(Machine, ReallocChunkBefore, ReallocHigher),
                   ReallocChunkBefore, last'.new_size, last'.align) = 0

\* in space m the bytes from c to c + total lie in one free chunk
FreedWhole(m, c, total) ==
    /\ m.fault = "none"
    /\ \E k \in 1..Len(AllChunks(m)) :
           /\ ~GetInUse(m, AllChunks(m)[k])
           /\ AllChunks(m)[k] <= c
           /\ c + total <= AllChunks(m)[k] + GetSize(m, AllChunks(m)[k])

\* in space m the chunk c, enlarged to total bytes, is still the caller's:
\* in use, in no bin, flagged in its higher neighbour, recovered from pointer
\* p with the bytes the allocation had in space s0, and freed whole by dealloc
EnlargedHeld(m, s0, c, total, p, size, align) ==
    /\ m.fault = "none"
    /\ GetInUse(m, c)
    /\ GetSize(m, c) = total
    /\ c \notin Binned(m)
    /\ GetLowerInUse(m, GetHigherChunk(m, c))
    /\ FromUserData(m, p, align) = c
    /\ Bytes(m, p, size) = Bytes(s0, p, size)
    /\ \A d \in {DeallocInSpace(m, p, align)} : FreedWhole(d, c, total)

\* C31: when realloc has coalesced the chunk with its free higher neighbour
\* and the enlarged chunk still cannot hold (new_size, align), then before
\* the fallback, and after it when it returns null, the enlarged chunk is in
\* use and in no bin, its higher neighbour has LOWER_IN_USE = 1, the pointer
\* and its bytes are intact and dealloc(ptr, old layout) frees the whole
\* enlarged chunk; when the fallback succeeds the whole enlarged chunk is free.
C31_CoalescedFallback ==
    [][CoalescedNoFit =>
           \A c \in {ReallocChunkBefore} :
           \A total \in {GetSize(Machine, c) + GetSize(Machine, ReallocHigher)} :
               /\ \A m \in {OverlayRealloc(Machine, last'.ptr, last'.align, last'.new_size).s} :
                      EnlargedHeld(m, Machine, c, total, last'.ptr, last'.size, last'.align)
               /\ fault' = "none"
               /\ IF last'.ret = 0
                  THEN EnlargedHeld(MachineAfter, Machine, c, total,
                                    last'.ptr, last'.size, last'.align)
                  ELSE FreedWhole(MachineAfter, c, total)]_vars

\* the second call, a realloc from 8 to 80 bytes at align 16, has returned
\* null and left the allocation in a chunk of 88 bytes: 32 of its own and 56
\* of the neighbour it has coalesced with
C31_Witness ==
    /\ NoFault
    /\ left = MaxPadOps - 2
    /\ last.op = "realloc" /\ last.ret = 0
    /\ last.size = 8 /\ last.new_size = 80 /\ last.align = 16
    /\ GetSize(Machine, LastChunk(Machine)) = 88
    /\ live = <<[ptr |-> last.ptr, size |-> 8, align |-> 16]>>

\* C32: no alloc, dealloc or realloc call writes to a byte inside the user
\* range of a live allocation other than the one the call operates on: the
\* bytes of every other allocation that was live before the call are the same
\* after it.
C32_OthersUntouched ==
    [][last'.op \in {"alloc", "dealloc", "realloc"} =>
           \A i \in 1..Len(live) :
               (last'.op = "alloc" \/ live[i].ptr # last'.ptr) =>
                   Bytes(MachineAfter, live[i].ptr, live[i].size)
                       = Bytes(Machine, live[i].ptr, live[i].size)]_vars

\* the words init leaves in a zero-filled space of the current base and length
ZeroInit == OverlayInit(ZeroMachine(base, len), len)

\* C33: Allocator::new produces the post-init layout and writes only inside
\* the space whatever the space held before: with stale bits in the meta and
\* next words of the first chunk and of the top chunk, init writes no address
\* at or beyond base + len, and the bin slots, headers, links and footers
\* are those it leaves in a zero-filled space.
C33_NewOnStale ==
    last.op = "init" =>
        /\ NoFault
        /\ InitLayout
        /\ FreeChunks(Machine) = <<StartChunk(Machine), TopAddr>>
        /\ \A i \in BinIndices : GetBinChunk(Machine, i) = GetBinChunk(ZeroInit, i)
        /\ \A c \in {StartChunk(Machine), TopAddr} :
               \A a \in AllocatorWords(c) : Rd(Machine, a) = Rd(ZeroInit, a)

\* C34: every alloc, dealloc and realloc call runs to completion and
\* releases the space lock: under fair scheduling a thread that has made a
\* call is in the end back outside it, the call has returned and not
\* faulted, and the lock is free again whenever no thread is inside a call.
C34_EveryCallReturns ==
    \A t \in Threads :
        (thr[t].pc = "acquire") ~> (thr[t].pc = "idle" /\ thr[t].done /\ NoFault /\ ~lock)

\* bin_index_of_size has run on both sizes
BinIndexApplied == out.fn = "bin_index_of_size" /\ Len(out.val) = 2

\* C35: bin_index_of_size is monotone: of two sizes the larger never gets the
\* smaller bin index, across the boundary at 256 between exact and sorted bins
\* and across every power of two up to 2^24.
C35_BinIndexMonotone ==
    BinIndexApplied =>
        (out.args[1] <= out.args[2] => out.val[1] <= out.val[2])

C35_Witness ==
    /\ BinIndexApplied
    /\ out.args = <<255, 256>>
    /\ out.val = <<31, 32>>

\* floor(log2(n)) by its defining inequality
FloorLog2(n) == CHOOSE m \in 0..29 : Pow2(m) <= n /\ n < Pow2(m + 1)

\* the index by cases on t = max(s, 24)
IndexByCases(t) ==
    IF t < 256 THEN t \div 8
    ELSE IF t < Pow2(24)
    THEN 32 + 4 * FloorLog2(t \div 256)
            + ((t \div Pow2(FloorLog2(t \div 256) + 6)) % 4)
    ELSE 95

\* C36: with t = max(s, 24), bin_index_of_size(s) is t/8 when t < 256, is
\* 32 + 4*m + ((t >> (m+6)) & 3) with m = floor(log2(t >> 8)) when
\* 256 <= t < 2^24, and is 95 when t >= 2^24; the result lies in 3..95.
C36_BinIndexByCases ==
    BinIndexApplied =>
        \A k \in 1..2 :
            /\ out.val[k] = IndexByCases(Max(out.args[k], 24))
            /\ out.val[k] \in 3..95

C36_Witness ==
    /\ BinIndexApplied
    /\ out.args = <<0, Pow2(24) - 1>>
    /\ out.val = <<3, 95>>

\* the step is a call of grow that returned
GrowReturned == out'.fn = "grow" /\ fault' = "none"

\* C37: Space::grow(min_bytes) returns true only if the length afterwards is
\* at least min_bytes, and when it returns false the length, the base and the
\* contents of the space are unchanged, for every length and every min_bytes.
C37_GrowContract ==
    [][GrowReturned =>
          /\ (out'.val[1] => len' >= out'.args[2])
          /\ (~out'.val[1] => len' = len /\ base' = base /\ mem' = mem)]_vars

\* C38 as stated: the fixed provider's grow returns false for every min_bytes
\* and never changes the buffer.
C38_FixedGrowFalse ==
    [][(GrowReturned /\ out'.args[1] = "fixed") =>
          /\ ~out'.val[1]
          /\ len' = len /\ base' = base /\ mem' = mem]_vars

\* the sizes a Layout can ask for: up to isize::MAX
LayoutSized(min_bytes) == min_bytes < (MaxUsize + 1) \div 2

\* C38: the fixed provider's grow never changes the buffer; for min_bytes up
\* to isize::MAX it returns false when min_bytes is at least the buffer's
\* length and true when min_bytes is below it.
C38_FixedGrow ==
    [][(GrowReturned /\ out'.args[1] = "fixed") =>
          /\ len' = len /\ base' = base /\ mem' = mem
          /\ LayoutSized(out'.args[2]) => (out'.val[1] <=> out'.args[2] < len)]_vars

C38_Witness ==
    /\ out.fn = "grow"
    /\ out.args = <<"fixed", InitLen - 1>>
    /\ out.val = <<TRUE>>
    /\ len = InitLen
    /\ mem[0] = 1
    /\ left = MaxSpaceOps - 2

\* thread t is in a dealloc or realloc that went to the wrapped allocator
InWrapped(t) ==
    /\ thr[t].pc = "acquire"
    /\ thr[t].req.op \in {"dealloc", "realloc"}

\* the step takes thread t through the branch of dealloc or realloc
Branches(t) == thr[t].pc = "check" /\ thr'[t].pc # "check"

C40_RoundTrip ==
    out.fn = "from_bytes" => out.val[1] = out.args[1]

====
